---- MODULE Spec2Model ----
(***************************************************************************)
(* Callback resolution and session store of @choiceform/shared-auth.       *)
(*                                                                         *)
(* State: the reactive authStore, the localStorage slot behind the token   *)
(* storage, and one handleCallback invocation (its position, the Gateway   *)
(* calls it has made, the Gateway response it received and the promise it  *)
(* returned).  Every Gateway call is a suspension point: the code before   *)
(* it and the code of each completion callback run to completion and are   *)
(* one action each.                                                        *)
(***************************************************************************)
EXTENDS Integers, Sequences, FiniteSets, TLC

VARIABLES
    authStore,      \* observable<AuthState>: user, isAuthenticated, isLoaded, loading, error, token
    localStorage,   \* the value stored under tokenStorageKey (null when absent)
    lsFault,        \* how localStorage behaves in this browser: "none", "quota", "denied"
    fetches,        \* the number of get-session requests in flight, per token
    cb,             \* the handleCallback invocation
    sync,           \* the useAuthSync hook: its refs, what it last rendered, and the
                    \* setupCompanionTeam runs
    urlToken        \* the token parameter of window.location.search (null when absent)

vars == <<authStore, localStorage, lsFault, fetches, cb, sync, urlToken>>

-----------------------------------------------------------------------------
(* JavaScript values.  null and undefined are sentinels no program string    *)
(* equals; a property that is undefined is a field the record does not have. *)

null == "<null>"
undefined == "<undefined>"

Truthy(v) == v \notin {null, undefined, ""}

Has(r, k) == k \in DOMAIN r

\* r.k, undefined when the property is absent
Prop(r, k) == IF k \in DOMAIN r THEN r[k] ELSE undefined

\* { ...a, ...b }
Spread(a, b) == [k \in DOMAIN a \cup DOMAIN b |-> IF k \in DOMAIN b THEN b[k] ELSE a[k]]

\* String.prototype.includes
Includes(s, sub) ==
    \E i \in 1..(Len(s) - Len(sub) + 1) : SubSeq(s, i, i + Len(sub) - 1) = sub

\* characters encodeURIComponent leaves alone
UriUnreserved ==
    { "a","b","c","d","e","f","g","h","i","j","k","l","m","n","o","p","q","r","s","t",
      "u","v","w","x","y","z","A","B","C","D","E","F","G","H","I","J","K","L","M","N",
      "O","P","Q","R","S","T","U","V","W","X","Y","Z","0","1","2","3","4","5","6","7",
      "8","9","-","_",".","!","~","*","'","(",")" }

UriEscape(c) ==
    CASE c = "@" -> "%40"
      [] c = "+" -> "%2B"
      [] c = " " -> "%20"
      [] c = "&" -> "%26"
      [] c = "=" -> "%3D"
      [] c = "?" -> "%3F"
      [] c = "/" -> "%2F"
      [] c = "#" -> "%23"
      [] c = "%" -> "%25"
      [] OTHER   -> c

RECURSIVE encodeURIComponent(_)
encodeURIComponent(s) ==
    IF Len(s) = 0 THEN ""
    ELSE LET c == SubSeq(s, 1, 1)
         IN  (IF c \in UriUnreserved THEN c ELSE UriEscape(c))
                 \o encodeURIComponent(SubSeq(s, 2, Len(s)))

\* what decodeURIComponent throws
URIError == "<URIError>"

\* the character an escape sequence stands for; URIError for a "%" that is
\* not followed by two hexadecimal digits
UriUnescape(seq) ==
    CASE seq = "%40" -> "@"
      [] seq = "%2B" -> "+"
      [] seq = "%20" -> " "
      [] seq = "%26" -> "&"
      [] seq = "%3D" -> "="
      [] seq = "%3F" -> "?"
      [] seq = "%2F" -> "/"
      [] seq = "%23" -> "#"
      [] seq = "%25" -> "%"
      [] OTHER   -> URIError

RECURSIVE decodeURIComponent(_)
decodeURIComponent(s) ==
    IF Len(s) = 0 THEN ""
    ELSE IF SubSeq(s, 1, 1) # "%"
         THEN LET rest == decodeURIComponent(SubSeq(s, 2, Len(s)))
              IN  IF rest = URIError THEN URIError ELSE SubSeq(s, 1, 1) \o rest
         ELSE IF Len(s) < 3 \/ UriUnescape(SubSeq(s, 1, 3)) = URIError
              THEN URIError
              ELSE LET rest == decodeURIComponent(SubSeq(s, 4, Len(s)))
                   IN  IF rest = URIError THEN URIError
                       ELSE UriUnescape(SubSeq(s, 1, 3)) \o rest

-----------------------------------------------------------------------------
(* CallbackConfig defaults *)

defaultConfig ==
    [ lang              |-> "us",
      defaultRedirect   |-> "/",
      signInPath        |-> "/sign-in",
      linkExpiredPath   |-> "/auth/link-expired",
      deleteSuccessPath |-> "/auth/delete-success",
      resetPasswordPath |-> "/reset-password" ]

cfg == defaultConfig

-----------------------------------------------------------------------------
(* Token storage and auth store.  A "world" is the pair the store actions    *)
(* read and write: the observable store and the localStorage slot.           *)

NoUser == [null |-> TRUE]

World == [authStore |-> authStore, localStorage |-> localStorage]

\* getStoredToken: localStorage.getItem, null when it throws
getStoredToken(w) == IF lsFault = "denied" THEN null ELSE w.localStorage

get(w) == getStoredToken(w)

\* createTokenStorage.save: setItem / removeItem, a thrown error is logged
originalSave(w, token) ==
    IF Truthy(token)
    THEN IF lsFault \in {"denied", "quota"} THEN w ELSE [w EXCEPT !.localStorage = token]
    ELSE IF lsFault = "denied" THEN w ELSE [w EXCEPT !.localStorage = null]

\* faulty variant of save: a durable write that throws ends the call
saveStoppedByFault(w, token) ==
    IF originalSave(w, token) = w /\ lsFault # "none"
    THEN w
    ELSE [originalSave(w, token) EXCEPT !.authStore.token = token]

\* tokenStorage.save as wrapped by createAuthStore: durable write, then the mirror
save(w, token) == [originalSave(w, token) EXCEPT !.authStore.token = token]

clear(w) == save(w, null)

\* faulty variant of setUser: isAuthenticated is left as it was
setUserOnly(w, user) == [w EXCEPT !.authStore.user = user]

setUser(w, user) ==
    [w EXCEPT !.authStore.user = user, !.authStore.isAuthenticated = (user # NoUser)]

\* the computed isReady
isReady(w) == w.authStore.isLoaded /\ w.authStore.isAuthenticated

\* faulty variant of updateUser: the updates replace the user instead of merging into it
updateUserReplacing(w, updates) ==
    IF w.authStore.user # NoUser
    THEN [w EXCEPT !.authStore.user = updates]
    ELSE w

updateUser(w, updates) ==
    IF w.authStore.user # NoUser
    THEN [w EXCEPT !.authStore.user = Spread(w.authStore.user, updates)]
    ELSE w

setLoading(w, loading) == [w EXCEPT !.authStore.loading = loading]

setError(w, error) == [w EXCEPT !.authStore.error = error]

setLoaded(w, loaded) ==
    [w EXCEPT !.authStore.isLoaded = loaded,
              !.authStore.loading = IF loaded THEN FALSE ELSE @]

\* faulty variant of setAuthenticated: the error is left as it was
setAuthenticatedKeepingError(w, user) ==
    [w EXCEPT !.authStore.user = user,
              !.authStore.isAuthenticated = TRUE,
              !.authStore.isLoaded = TRUE,
              !.authStore.loading = FALSE]

setAuthenticated(w, user) ==
    [w EXCEPT !.authStore.user = user,
              !.authStore.isAuthenticated = TRUE,
              !.authStore.isLoaded = TRUE,
              !.authStore.loading = FALSE,
              !.authStore.error = null]

\* faulty variant of clearAuth: the token storage is not cleared
clearAuthKeepingToken(w) ==
    [w EXCEPT !.authStore.user = NoUser,
              !.authStore.isAuthenticated = FALSE,
              !.authStore.isLoaded = TRUE,
              !.authStore.loading = FALSE]

clearAuth(w) ==
    clear([w EXCEPT !.authStore.user = NoUser,
                    !.authStore.isAuthenticated = FALSE,
                    !.authStore.isLoaded = TRUE,
                    !.authStore.loading = FALSE])

handleUnauthorized(w) == clearAuth(w)

\* { ...r, [k]: v }; a property set to undefined reads as an absent one
WithProp(r, k, v) ==
    IF v \in {null, undefined}
    THEN [x \in DOMAIN r \ {k} |-> r[x]]
    ELSE Spread(r, [x \in {k} |-> v])

\* activeOrganizationId: organizationId ?? undefined
setActiveOrganizationId(w, organizationId) ==
    IF w.authStore.user # NoUser
    THEN [w EXCEPT !.authStore.user = WithProp(@, "activeOrganizationId", organizationId)]
    ELSE w

\* faulty variant of setActiveTeamId: the team is written without a look at the
\* current user
setActiveTeamIdUnguarded(w, teamId) ==
    [w EXCEPT !.authStore.user = WithProp(@, "activeTeamId", teamId)]

setActiveTeamId(w, teamId) ==
    IF w.authStore.user # NoUser
    THEN [w EXCEPT !.authStore.user = WithProp(@, "activeTeamId", teamId)]
    ELSE w

\* initialize(user, isLoaded): setAuthenticated or the two sets of the else
\* branch, then isLoaded and loading whatever the branch left
initialize(w, user, isLoaded) ==
    LET branch == IF user # NoUser
                  THEN setAuthenticated(w, user)
                  ELSE [w EXCEPT !.authStore.user = NoUser,
                                 !.authStore.isAuthenticated = FALSE]
    IN  [branch EXCEPT !.authStore.isLoaded = isLoaded,
                       !.authStore.loading = ~isLoaded]

-----------------------------------------------------------------------------
(* The handleCallback invocation.                                            *)
(*   fn       the operation invoked: handleCallback or handleOAuthCallback   *)
(*   pc       "idle" | the Gateway call it is suspended on | "abandoned"     *)
(*            (suspended on a call that will never call back) | "settled"    *)
(*   calls    the Gateway calls made so far, in order                        *)
(*   gw       the Gateway's answer to the verifyEmail / deleteUser call      *)
(*   promise  state of the promise handleCallback returned                   *)
(*   outcome  the CallbackResult it was fulfilled with                       *)

NoResult == [null |-> TRUE]
NoOptions == [isNewUser |-> FALSE]
NoAnswer == [kind |-> "none"]

IdleCb ==
    [ fn |-> "handleCallback",
      pc |-> "idle", type |-> null, token |-> null, options |-> NoOptions,
      calls |-> <<>>, gw |-> NoAnswer, promise |-> "none", outcome |-> NoResult ]

\* a || b
OrElse(a, b) == IF Truthy(a) THEN a ELSE b

\* the handler returns (or its promise is resolved with) result
Resolve(c, result) ==
    [c EXCEPT !.pc = "settled", !.promise = "fulfilled", !.outcome = result]

\* an exception leaves the handler: the returned promise rejects
Reject(c) == [c EXCEPT !.pc = "settled", !.promise = "rejected"]

Call(c, name) == [c EXCEPT !.calls = Append(@, name)]

\* isTokenExpiredError of a parsed error: one of the two codes, or a message
\* that contains "expired"
isTokenExpiredError(parsed) ==
    \/ Prop(parsed, "code") \in { "INVALID_TOKEN", "SESSION_EXPIRED" }
    \/ Includes(parsed.message, "expired")

\* faulty variant of isExpired: the message is not looked at
isExpiredByCodeOnly(error) == Prop(error, "code") = "INVALID_TOKEN"

\* errorCode === "INVALID_TOKEN" || ctx.error.message?.includes("expired")
isExpired(error) ==
    \/ Prop(error, "code") = "INVALID_TOKEN"
    \/ (Has(error, "message") /\ Includes(error.message, "expired"))

\* { success: false, error: ctx.error.message, errorCode, redirectTo }
ErrorResult(error, redirectTo) ==
    Spread(Spread([success |-> FALSE, redirectTo |-> redirectTo],
                  IF Has(error, "message") THEN [error |-> error.message] ELSE [success |-> FALSE]),
           IF Has(error, "code") THEN [errorCode |-> error.code] ELSE [success |-> FALSE])

LinkExpired(type) == cfg.linkExpiredPath \o "?type=" \o type \o "&lang=" \o cfg.lang

SignIn == cfg.signInPath \o "?lang=" \o cfg.lang

TokenRequired(type) ==
    [success |-> FALSE, error |-> "Token is required", redirectTo |-> LinkExpired(type)]

VerificationFailed(type) ==
    [success |-> FALSE, error |-> "Verification failed", redirectTo |-> LinkExpired(type)]

\* ctx.data?.status !== true
StatusNotTrue(data) == ~(Has(data, "status") /\ data.status = TRUE)

\* ---- signup ----

\* faulty variant of handleEmailVerificationCallback: the token is not checked
handleEmailVerificationCallbackUnchecked(c, token, entry) ==
    IF entry = "throws"
    THEN [c EXCEPT !.calls = Append(@, "verifyEmail"), !.gw = [kind |-> "throw"],
                   !.pc = "settled", !.promise = "rejected"]
    ELSE [c EXCEPT !.calls = Append(@, "verifyEmail"), !.pc = "verifyEmail"]

\* handleEmailVerificationCallback up to the verifyEmail call; entry says
\* whether the call returns its promise or throws inside the executor
handleEmailVerificationCallback(c, token, entry) ==
    IF ~Truthy(token)
    THEN Resolve(c, TokenRequired("signup"))
    ELSE IF entry = "throws"
         THEN Reject([Call(c, "verifyEmail") EXCEPT !.gw = [kind |-> "throw"]])
         ELSE [Call(c, "verifyEmail") EXCEPT !.pc = "verifyEmail"]

EmailVerificationOnSuccess(w, c, data) ==
    IF StatusNotTrue(data)
    THEN [w |-> w, cb |-> Resolve(c, VerificationFailed("signup"))]
    ELSE [ w  |-> IF w.authStore.user # NoUser
                  THEN updateUser(w, [emailVerified |-> TRUE])
                  ELSE w,
           cb |-> Resolve(c, [success |-> TRUE, redirectTo |-> cfg.defaultRedirect]) ]

\* faulty variant of EmailVerificationOnError: an expired link leaves the session alone
EmailVerificationOnErrorNoCleanup(w, c, error) ==
    [ w  |-> w,
      cb |-> [c EXCEPT !.calls = IF isExpired(error) THEN Append(@, "signOut") ELSE @,
                       !.pc = "settled", !.promise = "fulfilled",
                       !.outcome = ErrorResult(error, LinkExpired("signup"))] ]

EmailVerificationOnError(w, c, error) ==
    [ w  |-> IF isExpired(error) THEN clearAuth(w) ELSE w,
      cb |-> Resolve(IF isExpired(error) THEN Call(c, "signOut") ELSE c,
                     ErrorResult(error, LinkExpired("signup"))) ]

\* ---- delete-user ----

\* faulty variant of handleDeleteUserCallback: the login check is skipped
handleDeleteUserCallbackNoLoginCheck(w, c, token, entry) ==
    IF ~Truthy(token)
    THEN [c EXCEPT !.pc = "settled", !.promise = "fulfilled",
                   !.outcome = TokenRequired("delete-user")]
    ELSE IF entry = "throws"
         THEN [c EXCEPT !.calls = Append(@, "deleteUser"), !.gw = [kind |-> "throw"],
                        !.pc = "settled", !.promise = "rejected"]
         ELSE [c EXCEPT !.calls = Append(@, "deleteUser"), !.pc = "deleteUser"]

handleDeleteUserCallback(w, c, token, entry) ==
    IF ~Truthy(token)
    THEN Resolve(c, TokenRequired("delete-user"))
    ELSE IF ~w.authStore.isAuthenticated
         THEN Resolve(c, [ success    |-> FALSE,
                           needsLogin |-> TRUE,
                           error      |-> "Please login to confirm account deletion",
                           data       |-> [token |-> token] ])
         ELSE IF entry = "throws"
              THEN Reject([Call(c, "deleteUser") EXCEPT !.gw = [kind |-> "throw"]])
              ELSE [Call(c, "deleteUser") EXCEPT !.pc = "deleteUser"]

\* faulty variant of DeleteUserOnSuccess: the session email wins over options.userEmail
DeleteUserOnSuccessSessionFirst(w, c) ==
    LET userEmail  == Prop(c.options, "userEmail")
        email      == IF w.authStore.user # NoUser THEN Prop(w.authStore.user, "email")
                      ELSE userEmail
        emailParam == IF Truthy(email) THEN "&email=" \o encodeURIComponent(email) ELSE ""
    IN  Resolve(c, [ success    |-> TRUE,
                     redirectTo |-> cfg.deleteSuccessPath \o "?lang=" \o cfg.lang \o emailParam ])

DeleteUserOnSuccess(w, c) ==
    LET userEmail  == Prop(c.options, "userEmail")
        email      == IF Truthy(userEmail) THEN userEmail
                      ELSE IF w.authStore.user # NoUser THEN Prop(w.authStore.user, "email")
                      ELSE undefined
        emailParam == IF Truthy(email) THEN "&email=" \o encodeURIComponent(email) ELSE ""
    IN  Resolve(c, [ success    |-> TRUE,
                     redirectTo |-> cfg.deleteSuccessPath \o "?lang=" \o cfg.lang \o emailParam ])

DeleteUserOnError(c, error) ==
    Resolve(c, ErrorResult(error, IF isExpired(error) THEN LinkExpired("delete-user") ELSE SignIn))

\* ---- reset-password ----

\* faulty variant of handlePasswordResetCallback: a missing token is a failure
handlePasswordResetCallbackTokenRequired(c, token) ==
    IF Truthy(token)
    THEN Resolve(c, [ success    |-> TRUE,
                      redirectTo |-> cfg.resetPasswordPath \o "?token=" \o token
                                         \o "&lang=" \o cfg.lang ])
    ELSE Resolve(c, TokenRequired("reset-password"))

handlePasswordResetCallback(c, token) ==
    IF Truthy(token)
    THEN Resolve(c, [ success    |-> TRUE,
                      redirectTo |-> cfg.resetPasswordPath \o "?token=" \o token
                                         \o "&lang=" \o cfg.lang ])
    ELSE Resolve(c, [ success    |-> TRUE,
                      redirectTo |-> cfg.resetPasswordPath \o "?lang=" \o cfg.lang ])

\* ---- session fetch and HTTP transport ----

\* apiClient handleResponse: a 401 response clears the auth state
handleResponse(w, status) == IF status = 401 THEN handleUnauthorized(w) ELSE w

ResponseOk(status) == status = 200

\* fetchAndSetSession up to the get-session request (token is non-empty)
fetchAndSetSessionStart(w, token) == save(w, token)

\* faulty variant of fetchAndSetSessionDone: a session that is in the store is
\* not overwritten
fetchAndSetSessionDoneFirstWins(w, status, userData) ==
    LET w1 == handleResponse(w, status)
    IN  IF ResponseOk(status) /\ userData # NoUser
        THEN IF w1.authStore.user # NoUser THEN w1 ELSE setAuthenticated(w1, userData)
        ELSE clearAuth(w1)

\* fetchAndSetSession after getSessionWithToken answered with status and user
fetchAndSetSessionDone(w, status, userData) ==
    LET w1 == handleResponse(w, status)
    IN  IF ResponseOk(status) /\ userData # NoUser
        THEN setAuthenticated(w1, userData)
        ELSE clearAuth(w1)

\* ---- OAuth ----

\* handleOAuthCallback up to the first get-session request
handleOAuthCallback(w, c, token) ==
    IF ~Truthy(token)
    THEN [ w  |-> w,
           cb |-> Resolve(c, [ success    |-> FALSE,
                               error      |-> "Token is required",
                               redirectTo |-> SignIn ]) ]
    ELSE [ w  |-> fetchAndSetSessionStart(w, token),
           cb |-> [Call(c, "getSession") EXCEPT !.pc = "oauthSession"] ]

\* { success: true, redirectTo: cfg.defaultRedirect, data: { session, isNewUser } }
OAuthSuccess(c) ==
    Resolve(c, [ success    |-> TRUE,
                 redirectTo |-> cfg.defaultRedirect,
                 data       |-> [session |-> c.gw.session, isNewUser |-> c.options.isNewUser] ])

\* the first fetchAndSetSession answered: no session fails, a new user without
\* an inherent organization is onboarded
OAuthSessionFetched(w, c, status, userData) ==
    LET w1      == fetchAndSetSessionDone(w, status, userData)
        session == IF ResponseOk(status) THEN userData ELSE NoUser
        c1      == [c EXCEPT !.gw = [kind |-> "session", session |-> session]]
    IN  IF session = NoUser
        THEN [ w  |-> w1,
               cb |-> Resolve(c1, [ success    |-> FALSE,
                                    error      |-> "Failed to get session",
                                    redirectTo |-> SignIn ]) ]
        ELSE IF c.options.isNewUser /\ ~Truthy(Prop(session, "inherentOrganizationId"))
             THEN [w |-> w1, cb |-> [Call(c1, "onboard") EXCEPT !.pc = "onboard"]]
             ELSE [w |-> w1, cb |-> OAuthSuccess(c1)]

\* faulty variant of OAuthOnboarded: a failed onboard fails the sign-in
OAuthOnboardedStrict(w, c, status) ==
    LET w1 == IF status = 0 THEN w ELSE handleResponse(w, status)
        c1 == [c EXCEPT !.gw = Spread(@, [onboard |-> [status |-> status]])]
    IN  IF ~ResponseOk(status)
        THEN [ w  |-> w1,
               cb |-> Resolve(c1, [ success    |-> FALSE,
                                    error      |-> "OAuth callback failed",
                                    redirectTo |-> SignIn ]) ]
        ELSE [ w  |-> fetchAndSetSessionStart(w1, c.token),
               cb |-> [Call(c1, "getSession") EXCEPT !.pc = "oauthRefetch"] ]

\* onboard answered: a failure is swallowed, a success refetches the session
OAuthOnboarded(w, c, status) ==
    LET w1 == IF status = 0 THEN w ELSE handleResponse(w, status)
        c1 == [c EXCEPT !.gw = Spread(@, [onboard |-> [status |-> status]])]
    IN  IF ~ResponseOk(status)
        THEN [w |-> w1, cb |-> OAuthSuccess(c1)]
        ELSE [ w  |-> fetchAndSetSessionStart(w1, c.token),
               cb |-> [Call(c1, "getSession") EXCEPT !.pc = "oauthRefetch"] ]

\* the session refetch after onboard answered; its result is not looked at
OAuthRefetched(w, c, status, userData) ==
    [ w  |-> fetchAndSetSessionDone(w, status, userData),
      cb |-> OAuthSuccess([c EXCEPT !.gw = Spread(@, [refetch |-> [status |-> status]])]) ]

\* ---- startup ----

\* what initializeAuth passes on: a token that decoding leaves as it is gets
\* encoded, any other is taken as it is
tokenFromUrl(param) ==
    IF decodeURIComponent(param) = param THEN encodeURIComponent(param) ELSE param

\* initializeAuth up to the get-session request: a loaded store and a missing
\* or empty token parameter return at once, a token parameter is taken out of
\* the URL and handed to fetchAndSetSession; the decodeURIComponent in front
\* of that is outside the try
initializeAuth(w, c, param) ==
    LET returned == Resolve(c, [returned |-> w.authStore.isAuthenticated])
    IN  IF w.authStore.isLoaded \/ ~Truthy(param)
        THEN [w |-> w, cb |-> returned, urlToken |-> param]
        ELSE IF decodeURIComponent(param) = URIError
             THEN [w |-> w, cb |-> Reject(c), urlToken |-> param]
             ELSE [ w        |-> fetchAndSetSessionStart(w, tokenFromUrl(param)),
                    cb       |-> [Call(c, "getSession") EXCEPT
                                     !.pc = "startupSession", !.token = tokenFromUrl(param)],
                    urlToken |-> null ]

\* fetchAndSetSession answered: initializeAuth returns isAuthenticated
StartupSessionFetched(w, c, status, userData) ==
    LET w1 == fetchAndSetSessionDone(w, status, userData)
    IN  [ w  |-> w1,
          cb |-> Resolve([c EXCEPT !.gw = [kind |-> "session", status |-> status]],
                         [returned |-> w1.authStore.isAuthenticated]) ]

\* ---- change-email token payload ----

\* JSON.parse(atob(token.split(".")[1])): the payload of the tokens the model
\* uses; NoPayload when the decode throws
NoPayload == [null |-> TRUE]

JwtUpdateTo == "h.eyJ1cGRhdGVUbyI6Im5AeC5pbyJ9.s"

JwtEmail == "h.eyJlbWFpbCI6ImVAeC5pbyJ9.s"

DecodePayload(token) ==
    CASE token = JwtUpdateTo -> [updateTo |-> "n@x.io"]
      [] token = JwtEmail    -> [email |-> "e@x.io"]
      [] OTHER               -> NoPayload

\* ---- confirm-change-email ----

\* displayEmail of handleConfirmChangeEmailCallback
displayEmail(token, newEmail) ==
    IF Truthy(newEmail) THEN newEmail
    ELSE LET payload == DecodePayload(token)
         IN  IF payload # NoPayload THEN OrElse(Prop(payload, "updateTo"), "") ELSE ""

VerifyEmailPage(email) ==
    "/verify-email?email=" \o encodeURIComponent(email) \o "&type=change-email&lang=" \o cfg.lang

handleConfirmChangeEmailCallback(c, token, newEmail, entry) ==
    IF ~Truthy(token)
    THEN Resolve(c, TokenRequired("confirm-change-email"))
    ELSE IF entry = "throws"
         THEN Reject([Call(c, "verifyEmail") EXCEPT !.gw = [kind |-> "throw"]])
         ELSE [Call(c, "verifyEmail") EXCEPT !.pc = "verifyEmail"]

ConfirmChangeEmailSuccessResult(c) ==
    [ success    |-> TRUE,
      redirectTo |-> VerifyEmailPage(displayEmail(OrElse(c.token, ""),
                                                  OrElse(Prop(c.options, "newEmail"), ""))) ]

\* faulty variant of ConfirmChangeEmailOnSuccess: the confirmation needs a session
ConfirmChangeEmailOnSuccessNeedsSession(c, data) ==
    IF StatusNotTrue(data) \/ ~authStore.isAuthenticated
    THEN Resolve(c, VerificationFailed("confirm-change-email"))
    ELSE Resolve(c, ConfirmChangeEmailSuccessResult(c))

ConfirmChangeEmailOnSuccess(c, data) ==
    IF StatusNotTrue(data)
    THEN Resolve(c, VerificationFailed("confirm-change-email"))
    ELSE Resolve(c, ConfirmChangeEmailSuccessResult(c))

ConfirmChangeEmailOnError(c, error) ==
    Resolve(c, ErrorResult(error, IF isExpired(error)
                                  THEN LinkExpired("confirm-change-email") ELSE SignIn))

\* faulty variant of ConfirmChangeEmailCatch: a rejected call is reported as a failure
ConfirmChangeEmailCatchFailing(c) ==
    Resolve(c, [ success |-> FALSE, error |-> "Verification failed", redirectTo |-> SignIn ])

ConfirmChangeEmailCatch(c) == Resolve(c, ConfirmChangeEmailSuccessResult(c))

\* ---- verify-change-email ----

\* newEmail of handleVerifyChangeEmailCallback
decodedNewEmail(token) ==
    LET payload == DecodePayload(token)
    IN  IF payload = NoPayload THEN ""
        ELSE OrElse(Prop(payload, "updateTo"), OrElse(Prop(payload, "email"), ""))

\* faulty variant of buildSuccessRedirect: the redirect is always the home path
buildSuccessRedirectHome(w, token) ==
    LET newEmail   == decodedNewEmail(token)
        emailParam == IF Truthy(newEmail) THEN "&email=" \o encodeURIComponent(newEmail) ELSE ""
    IN  cfg.defaultRedirect \o "?notification=emailChanged" \o emailParam \o "&lang=" \o cfg.lang

buildSuccessRedirect(w, token) ==
    LET newEmail   == decodedNewEmail(token)
        emailParam == IF Truthy(newEmail) THEN "&email=" \o encodeURIComponent(newEmail) ELSE ""
    IN  IF Truthy(get(w))
        THEN cfg.defaultRedirect \o "?notification=emailChanged" \o emailParam
                 \o "&lang=" \o cfg.lang
        ELSE cfg.signInPath \o "?notification=emailChanged" \o emailParam
                 \o "&lang=" \o cfg.lang

handleVerifyChangeEmailCallback(c, token, entry) ==
    IF ~Truthy(token)
    THEN Resolve(c, TokenRequired("verify-change-email"))
    ELSE IF entry = "throws"
         THEN Reject([Call(c, "verifyEmail") EXCEPT !.gw = [kind |-> "throw"]])
         ELSE [Call(c, "verifyEmail") EXCEPT !.pc = "verifyEmail"]

VerifyChangeEmailResolve(w, c) ==
    Resolve(c, [success |-> TRUE, redirectTo |-> buildSuccessRedirect(w, OrElse(c.token, ""))])

\* ---- invite ----

\* faulty variant of InviteFailed: the failure carries no redirect
InviteFailedWithoutRedirect ==
    [success |-> FALSE, error |-> "Failed to accept invitation"]

InviteFailed ==
    [ success    |-> FALSE,
      error      |-> "Failed to accept invitation",
      redirectTo |-> cfg.defaultRedirect \o "?notification=inviteFailed&lang=" \o cfg.lang ]

\* handleInviteCallback up to await auth.waitForAuth()
handleInviteCallback(c, invitationId) ==
    IF ~Truthy(invitationId)
    THEN Resolve(c, [ success    |-> FALSE,
                      error      |-> "Invitation ID is required",
                      redirectTo |-> cfg.defaultRedirect ])
    ELSE [c EXCEPT !.pc = "waitForAuth"]

\* faulty variant of InviteAfterWait: the credential is read from the store mirror
InviteAfterWaitByMirror(w, c) ==
    IF ~Truthy(w.authStore.token)
    THEN Resolve(c, [ success    |-> TRUE,
                      redirectTo |-> cfg.signInPath \o "?lang=" \o cfg.lang
                                         \o "&invitationId=" \o c.options.invitationId ])
    ELSE [Call(c, "acceptInvitation") EXCEPT !.pc = "acceptInvitation"]

\* after waitForAuth: read the credential, defer to sign-in or accept
InviteAfterWait(w, c) ==
    IF ~Truthy(get(w))
    THEN Resolve(c, [ success    |-> TRUE,
                      redirectTo |-> cfg.signInPath \o "?lang=" \o cfg.lang
                                         \o "&invitationId=" \o c.options.invitationId ])
    ELSE [Call(c, "acceptInvitation") EXCEPT !.pc = "acceptInvitation"]

\* result?.invitation?.teamId
NoInvitation == [null |-> TRUE]

InvitationOf(result) == IF Has(result, "invitation") THEN result.invitation ELSE NoInvitation

\* after acceptInvitation answered: status 0 is a request that failed to complete
InviteAccepted(w, c, status, result) ==
    LET w1  == IF status = 0 THEN w ELSE handleResponse(w, status)
        inv == InvitationOf(result)
        c1  == [c EXCEPT !.gw = [kind |-> "accepted", status |-> status, invitation |-> inv]]
    IN  IF ~ResponseOk(status)
        THEN [w |-> w1, cb |-> Resolve(c1, InviteFailed)]
        ELSE IF Truthy(Prop(inv, "teamId"))
             THEN IF Truthy(Prop(inv, "organizationId"))
                  THEN [w |-> w1, cb |-> [Call(c1, "setActiveOrganization")
                                             EXCEPT !.pc = "setActiveOrganization"]]
                  ELSE [w |-> w1, cb |-> [Call(c1, "setActiveTeam")
                                             EXCEPT !.pc = "setActiveTeam"]]
             ELSE [w |-> w1,
                   cb |-> Resolve(c1, [ success    |-> TRUE,
                                        redirectTo |-> cfg.defaultRedirect
                                            \o "?notification=inviteAccepted&lang="
                                            \o cfg.lang ])]

\* faulty variant of InviteOrganizationSet: setActiveTeam is requested even when
\* setActiveOrganization failed
InviteOrganizationSetIgnoringFailure(w, c, status, data) ==
    LET w1 == IF status = 0 THEN w ELSE handleResponse(w, status)
        c1 == [c EXCEPT !.gw = Spread(@, [organization |-> [status |-> status, data |-> data]])]
    IN  IF ~ResponseOk(status) \/ ~Has(data, "id")
        THEN [w |-> w1, cb |-> [Call(c1, "setActiveTeam") EXCEPT !.pc = "setActiveTeam"]]
        ELSE [ w  |-> setActiveOrganizationId(w1, data.id),
               cb |-> [Call(c1, "setActiveTeam") EXCEPT !.pc = "setActiveTeam"] ]

\* setActiveOrganization inside setActiveOrganizationAndTeam, then the
\* setActiveTeam request; the answer is kept in gw.organization
InviteOrganizationSet(w, c, status, data) ==
    LET w1 == IF status = 0 THEN w ELSE handleResponse(w, status)
        c1 == [c EXCEPT !.gw = Spread(@, [organization |-> [status |-> status, data |-> data]])]
    IN  IF ~ResponseOk(status) \/ ~Has(data, "id")
        THEN [w |-> w1, cb |-> Resolve(c1, InviteFailed)]
        ELSE [ w  |-> setActiveOrganizationId(w1, data.id),
               cb |-> [Call(c1, "setActiveTeam") EXCEPT !.pc = "setActiveTeam"] ]

\* faulty variant of InviteTeamSet: the failure of setActiveTeam leaves the handler
InviteTeamSetRethrowing(w, c, status) ==
    LET w1 == IF status = 0 THEN w ELSE handleResponse(w, status)
        c1 == [c EXCEPT !.gw = Spread(@, [team |-> [status |-> status]])]
    IN  IF ~ResponseOk(status)
        THEN [w |-> w1, cb |-> Reject(c1)]
        ELSE [ w  |-> setActiveTeamId(w1, c.gw.invitation.teamId),
               cb |-> [Call(c1, "listUserTeams") EXCEPT !.pc = "listUserTeams"] ]

\* setActiveTeam, then the listUserTeams request; the answer is kept in gw.team
InviteTeamSet(w, c, status) ==
    LET w1 == IF status = 0 THEN w ELSE handleResponse(w, status)
        c1 == [c EXCEPT !.gw = Spread(@, [team |-> [status |-> status]])]
    IN  IF ~ResponseOk(status)
        THEN [w |-> w1, cb |-> Resolve(c1, InviteFailed)]
        ELSE [ w  |-> setActiveTeamId(w1, c.gw.invitation.teamId),
               cb |-> [Call(c1, "listUserTeams") EXCEPT !.pc = "listUserTeams"] ]

\* teams.find((t) => t.id === teamId)?.name || ""
TeamNameOf(teams, teamId) ==
    IF \E i \in 1..Len(teams) : teams[i].id = teamId
    THEN LET i == CHOOSE j \in 1..Len(teams) :
                      teams[j].id = teamId /\ \A k \in 1..(j - 1) : teams[k].id # teamId
         IN  OrElse(Prop(teams[i], "name"), "")
    ELSE ""

\* the team-name lookup and the redirect to the team workspace; the answer is
\* kept in gw.teams
InviteTeamsListed(w, c, status, teams) ==
    LET w1            == IF status = 0 THEN w ELSE handleResponse(w, status)
        teamId        == c.gw.invitation.teamId
        teamName      == IF ResponseOk(status) THEN TeamNameOf(teams, teamId) ELSE ""
        teamNameParam == IF Truthy(teamName)
                         THEN "&teamName=" \o encodeURIComponent(teamName) ELSE ""
        c1            == [c EXCEPT !.gw = Spread(@, [teams |-> [status |-> status,
                                                                  list   |-> teams]])]
    IN  [ w  |-> w1,
          cb |-> Resolve(c1, [ success    |-> TRUE,
                               redirectTo |-> "/workspace/team/" \o teamId
                                   \o "?notification=inviteAccepted" \o teamNameParam
                                   \o "&lang=" \o cfg.lang ]) ]

\* ---- handleCallback ----

\* faulty variant of DefaultResult: the fallback sends the user to sign in
DefaultResultToSignIn == [success |-> TRUE, redirectTo |-> SignIn]

\* { success: true, redirectTo: cfg.defaultRedirect }
DefaultResult == [success |-> TRUE, redirectTo |-> cfg.defaultRedirect]

\* handleCallback up to the first suspension point
handleCallback(w, type, token, options, entry) ==
    LET c == [IdleCb EXCEPT !.type = type, !.token = token, !.options = options,
                            !.promise = "pending"]
    IN  IF ~Truthy(type)
        THEN Resolve(c, DefaultResult)
        ELSE CASE type = "signup" ->
                    handleEmailVerificationCallback(c, OrElse(token, ""), entry)
               [] type = "delete-user" ->
                    handleDeleteUserCallback(w, c, OrElse(token, ""), entry)
               [] type = "reset-password" ->
                    handlePasswordResetCallback(c, token)
               [] type = "invite" ->
                    handleInviteCallback(c, OrElse(Prop(options, "invitationId"), null))
               [] type = "confirm-change-email" ->
                    handleConfirmChangeEmailCallback(c, OrElse(token, ""),
                                                     OrElse(Prop(options, "newEmail"), ""), entry)
               [] type = "verify-change-email" ->
                    handleVerifyChangeEmailCallback(c, OrElse(token, ""), entry)
               [] OTHER ->
                    Resolve(c, DefaultResult)

-----------------------------------------------------------------------------
(* setupCompanionTeam.  A run is one invocation:                             *)
(*   source     "sync" (invoked by useAuthSync) or "direct"                  *)
(*   pc         the Gateway call it is suspended on, or "done"               *)
(*   user       currentUser, read once when the run starts                   *)
(*   calls      the Gateway calls made so far, in order                      *)
(*   gw         what the Gateway answered to them                            *)
(*   completes  how often onComplete was invoked; errors: how often onError  *)

\* String.prototype.trim, for the blanks the tokens of the model contain
RECURSIVE trim(_)
trim(s) ==
    IF Len(s) = 0 THEN ""
    ELSE IF SubSeq(s, 1, 1) = " " THEN trim(SubSeq(s, 2, Len(s)))
    ELSE IF SubSeq(s, Len(s), Len(s)) = " " THEN trim(SubSeq(s, 1, Len(s) - 1))
    ELSE s

NewRun(source, token, currentUser) ==
    [ source |-> source, pc |-> "start", token |-> token, user |-> currentUser,
      calls |-> <<>>, gw |-> NoAnswer, completes |-> 0, errors |-> 0 ]

\* onComplete?.() and return
Completed(run) == [run EXCEPT !.pc = "done", !.completes = @ + 1]

\* the outer catch: onError?.(error)
Failed(run) == [run EXCEPT !.pc = "done", !.errors = @ + 1]

\* a return that invokes no callback
Returned(run) == [run EXCEPT !.pc = "done"]

\* faulty variant of setupCompanionTeam: the token is not trimmed
setupCompanionTeamUntrimmed(w, source, token) ==
    LET currentUser == w.authStore.user
        run         == NewRun(source, token, currentUser)
    IN  IF ~Truthy(token)
        THEN Returned(run)
        ELSE IF currentUser = NoUser
        THEN Returned(run)
        ELSE IF Truthy(Prop(currentUser, "activeOrganizationId"))
                    /\ Truthy(Prop(currentUser, "activeTeamId"))
        THEN Completed(run)
        ELSE [Call(run, "onboard") EXCEPT !.pc = "onboard"]

\* setupCompanionTeam up to its first Gateway call
setupCompanionTeam(w, source, token) ==
    LET currentUser == w.authStore.user
        run         == NewRun(source, token, currentUser)
    IN  IF ~Truthy(token) \/ ~Truthy(trim(token))
        THEN Returned(run)
        ELSE IF currentUser = NoUser
        THEN Returned(run)
        ELSE IF Truthy(Prop(currentUser, "activeOrganizationId"))
                    /\ Truthy(Prop(currentUser, "activeTeamId"))
        THEN Completed(run)
        ELSE IF ~Truthy(Prop(currentUser, "inherentOrganizationId"))
                    \/ ~Truthy(Prop(currentUser, "inherentTeamId"))
        THEN [Call(run, "onboard") EXCEPT !.pc = "onboard"]
        ELSE IF ~Truthy(Prop(currentUser, "activeOrganizationId"))
        THEN [Call(run, "setActiveOrganization") EXCEPT !.pc = "setActiveOrganization"]
        ELSE [Call(run, "setActiveTeam") EXCEPT !.pc = "setActiveTeam"]

\* updateAuthStore: updateUser with the four ids of the session, an id the
\* session lacks being written as undefined
updateAuthStore(w, session) ==
    IF w.authStore.user = NoUser
    THEN w
    ELSE [w EXCEPT !.authStore.user =
             WithProp(
                 WithProp(
                     WithProp(
                         WithProp(@, "activeOrganizationId",
                                  Prop(session, "activeOrganizationId")),
                         "activeTeamId", Prop(session, "activeTeamId")),
                     "inherentOrganizationId", Prop(session, "inherentOrganizationId")),
                 "inherentTeamId", Prop(session, "inherentTeamId"))]

\* faulty variant of CompanionOnboarded: a failed onboard reaches the outer catch
CompanionOnboardedRethrowing(w, run, status) ==
    LET w1 == IF status = 0 THEN w ELSE handleResponse(w, status)
        r1 == [run EXCEPT !.gw = Spread(@, [onboard |-> [status |-> status]])]
    IN  IF ~ResponseOk(status)
        THEN [w |-> w1, run |-> Failed(r1)]
        ELSE [w |-> w1, run |-> [Call(r1, "getSession") EXCEPT !.pc = "getSession"]]

\* onboard answered: a failure is swallowed, a success asks for the session
CompanionOnboarded(w, run, status) ==
    LET w1 == IF status = 0 THEN w ELSE handleResponse(w, status)
        r1 == [run EXCEPT !.gw = Spread(@, [onboard |-> [status |-> status]])]
    IN  IF ~ResponseOk(status)
        THEN [w |-> w1, run |-> Completed(r1)]
        ELSE [w |-> w1, run |-> [Call(r1, "getSession") EXCEPT !.pc = "getSession"]]

\* getSessionWithToken answered: a session is merged into the store, a failure
\* is swallowed
CompanionSessionFetched(w, run, status, session) ==
    LET w1 == IF status = 0 THEN w ELSE handleResponse(w, status)
        r1 == [run EXCEPT !.gw = Spread(@, [session |-> [status |-> status, data |-> session]])]
    IN  IF ResponseOk(status) /\ session # NoUser
        THEN [w |-> updateAuthStore(w1, session), run |-> Completed(r1)]
        ELSE [w |-> w1, run |-> Completed(r1)]

\* faulty variant of CompanionOrganizationSet: setActiveTeam follows in any case
CompanionOrganizationSetThenTeam(w, run, status, data) ==
    LET w1 == IF status = 0 THEN w ELSE handleResponse(w, status)
        r1 == [run EXCEPT !.gw = Spread(@, [organization |-> [status |-> status, data |-> data]])]
    IN  IF ~ResponseOk(status) \/ ~Has(data, "id")
        THEN [w |-> w1, run |-> Failed(r1)]
        ELSE [ w   |-> setActiveOrganizationId(w1, data.id),
               run |-> [Call(r1, "setActiveTeam") EXCEPT !.pc = "setActiveTeam"] ]

\* setActiveOrganization answered; with the team missing too, setActiveTeam follows
CompanionOrganizationSet(w, run, status, data) ==
    LET w1 == IF status = 0 THEN w ELSE handleResponse(w, status)
        r1 == [run EXCEPT !.gw = Spread(@, [organization |-> [status |-> status, data |-> data]])]
    IN  IF ~ResponseOk(status) \/ ~Has(data, "id")
        THEN [w |-> w1, run |-> Failed(r1)]
        ELSE IF ~Truthy(Prop(run.user, "activeTeamId"))
             THEN [ w   |-> setActiveOrganizationId(w1, data.id),
                    run |-> [Call(r1, "setActiveTeam") EXCEPT !.pc = "setActiveTeam"] ]
             ELSE [w |-> setActiveOrganizationId(w1, data.id), run |-> Completed(r1)]

\* faulty variant of CompanionTeamSet: a failed setActiveTeam takes the active
\* organization back
CompanionTeamSetRollingBack(w, run, status) ==
    LET w1 == IF status = 0 THEN w ELSE handleResponse(w, status)
        r1 == [run EXCEPT !.gw = Spread(@, [team |-> [status |-> status]])]
    IN  IF ~ResponseOk(status)
        THEN [w |-> setActiveOrganizationId(w1, undefined), run |-> Failed(r1)]
        ELSE [w |-> setActiveTeamId(w1, run.user.inherentTeamId), run |-> Completed(r1)]

\* setActiveTeam answered
CompanionTeamSet(w, run, status) ==
    LET w1 == IF status = 0 THEN w ELSE handleResponse(w, status)
        r1 == [run EXCEPT !.gw = Spread(@, [team |-> [status |-> status]])]
    IN  IF ~ResponseOk(status)
        THEN [w |-> w1, run |-> Failed(r1)]
        ELSE [w |-> setActiveTeamId(w1, run.user.inherentTeamId), run |-> Completed(r1)]

-----------------------------------------------------------------------------
(* useAuthSync.                                                              *)
(*   rendered      the hook has rendered at least once                       *)
(*   user          the user extracted from the session it last rendered      *)
(*   isPending     the isPending it last rendered                            *)
(*   path          window.location.pathname                                  *)
(*   inline        the caller writes its config in the component: every      *)
(*                 render passes a new skipCompanionTeamPaths array, so the  *)
(*                 skip memo is recomputed, and a new onAuthChange function  *)
(*   shouldSkip    the memoized shouldSkipCompanionTeam                      *)
(*   teamSetupRef  the bootstrap guard                                       *)
(*   prevAuthRef   the remembered isAuthenticated: null, "true" or "false"   *)
(*   emitted       the onAuthChange calls of the last reconciliation         *)
(*   runs          the setupCompanionTeam runs, in order of invocation       *)
(* and, as history of the renders,                                           *)
(*   renderedPath  the pathname at the last render                           *)
(*   lifetime      the runs started since the hook last rendered no user     *)

Unmounted ==
    [ rendered |-> FALSE, user |-> NoUser, isPending |-> TRUE,
      path |-> "/", inline |-> FALSE, shouldSkip |-> FALSE,
      teamSetupRef |-> FALSE, prevAuthRef |-> null, emitted |-> <<>>, runs |-> <<>>,
      renderedPath |-> "/", lifetime |-> 0 ]

skipCompanionTeamPaths == { "/auth/callback", "/auth/delete-success" }

\* String.prototype.startsWith
startsWith(s, prefix) ==
    Len(prefix) <= Len(s) /\ SubSeq(s, 1, Len(prefix)) = prefix

shouldSkipCompanionTeam(pathname) ==
    \E path \in skipCompanionTeamPaths : pathname = path \/ startsWith(pathname, path)

\* the boolean as prevAuthRef remembers it
Remembered(b) == IF b THEN "true" ELSE "false"

\* the first effect: the session is copied into the store
SyncStore(w, user, isPending) ==
    [setUser(w, user) EXCEPT !.authStore.isLoaded = ~isPending,
                             !.authStore.loading = isPending]

\* the companion effect, given the store the first effect left
CompanionEffect(w, s, user, isPending, skip) ==
    IF skip
    THEN s
    ELSE LET start == /\ ~isPending
                      /\ user # NoUser
                      /\ Truthy(Prop(user, "id"))
                      /\ Prop(user, "emailVerified") = TRUE
                      /\ ~s.teamSetupRef
             token == get(w)
             s1    == IF start
                      THEN IF Truthy(token) /\ Len(trim(token)) > 0
                           THEN [s EXCEPT !.teamSetupRef = TRUE,
                                          !.runs = Append(@, setupCompanionTeam(w, "sync", token))]
                           ELSE [s EXCEPT !.teamSetupRef = TRUE]
                      ELSE s
         IN  IF user = NoUser /\ s1.teamSetupRef
             THEN [s1 EXCEPT !.teamSetupRef = FALSE]
             ELSE s1

\* faulty variant of AuthChangeEffect: the remembered value is not compared
AuthChangeEffectUnguarded(s, isAuthenticated) ==
    [s EXCEPT !.prevAuthRef = Remembered(isAuthenticated),
              !.emitted = << isAuthenticated >>]

\* the onAuthChange effect
AuthChangeEffect(s, isAuthenticated) ==
    IF s.prevAuthRef = Remembered(isAuthenticated)
    THEN [s EXCEPT !.emitted = <<>>]
    ELSE [s EXCEPT !.prevAuthRef = Remembered(isAuthenticated),
                   !.emitted = << isAuthenticated >>]

\* one reconciliation: the hook renders and runs the effects whose dependencies
\* changed.  fresh: useSession delivered a new session object, so that user is
\* a new object unless it is null both times
useAuthSync(w, s, user, isPending, fresh) ==
    LET first       == ~s.rendered
        skip        == IF s.inline \/ first
                       THEN shouldSkipCompanionTeam(s.path) ELSE s.shouldSkip
        userChanged == first \/ (fresh /\ (user # NoUser \/ s.user # NoUser))
        loadChanged == first \/ isPending # s.isPending
        authChanged == first \/ (user # NoUser) # (s.user # NoUser)
        w1 == IF userChanged \/ loadChanged THEN SyncStore(w, user, isPending) ELSE w
        s1 == [s EXCEPT !.rendered = TRUE, !.user = user, !.isPending = isPending,
                        !.shouldSkip = skip, !.emitted = <<>>]
        s2 == IF userChanged \/ loadChanged \/ skip # s.shouldSkip
              THEN CompanionEffect(w1, s1, user, isPending, skip) ELSE s1
        s3 == IF authChanged \/ s.inline
              THEN AuthChangeEffect(s2, user # NoUser) ELSE s2
    IN  [ w |-> w1, sync |-> s3 ]

\* faulty variant of Settle: onComplete resets the guard as onError does
SettleResetting(s, i, run) ==
    LET s1 == [s EXCEPT !.runs[i] = run]
    IN  IF run.source = "sync" /\ run.pc = "done"
        THEN [s1 EXCEPT !.teamSetupRef = FALSE]
        ELSE s1

\* a run has taken a step: the onError of a run that useAuthSync started
\* resets the guard
Settle(s, i, run) ==
    LET s1 == [s EXCEPT !.runs[i] = run]
    IN  IF run.source = "sync" /\ run.errors > s.runs[i].errors
        THEN [s1 EXCEPT !.teamSetupRef = FALSE]
        ELSE s1

-----------------------------------------------------------------------------
(* Inputs *)

MaxFetches == 1

\* the CallbackRequests the caller makes: every type with the tokens and the
\* options its handler reads, and the unrecognised types with any of them
Requests ==
    [ type    : { null, "oauth" },
      token   : { null, "tok1" },
      options : { NoOptions, [invitationId |-> "inv1"] } ]
    \cup
    [ type    : { "signup", "reset-password" },
      token   : { null, "", "tok1" },
      options : { NoOptions } ]
    \cup
    [ type    : { "delete-user" },
      token   : { null, "", "tok1" },
      options : { NoOptions, [isNewUser |-> TRUE, userEmail |-> "u+1@x.io"] } ]
    \cup
    [ type    : { "invite" },
      token   : { null, "tok1" },
      options : { NoOptions, [invitationId |-> "inv1"] } ]
    \cup
    [ type    : { "confirm-change-email" },
      token   : { null, "", "tok1", JwtUpdateTo, JwtEmail },
      options : { NoOptions, [newEmail |-> "new@x.io"] } ]
    \cup
    [ type    : { "verify-change-email" },
      token   : { null, "", "tok1", JwtUpdateTo, JwtEmail },
      options : { NoOptions } ]

\* how a better-auth client call begins: it returns its promise, or throws
Entries == { "returns", "throws" }

\* ctx.data of a success callback
Datas == { [status |-> TRUE], [status |-> FALSE], [null |-> TRUE] }

\* ctx.error of an error callback
Errors ==
    { [code |-> "INVALID_TOKEN", message |-> "Invalid token"],
      [code |-> "SESSION_EXPIRED", message |-> "Session ended"],
      [code |-> "USER_NOT_FOUND", message |-> "User not found"],
      [message |-> "Token has expired"],
      [message |-> "Request failed"],
      [status |-> 500] }

\* HTTP status of an apiClient request; 0 is a request that did not complete
Statuses == { 200, 401, 500, 0 }

SessionTokens == { "sess1" }

\* the token an OAuth redirect comes back with
OAuthTokens == { "", "sess1" }

Users ==
    { [ id |-> "u1", email |-> "a@x.io", emailVerified |-> FALSE, name |-> "Ann" ],
      [ id |-> "u2", email |-> "b@x.io", emailVerified |-> TRUE, name |-> "Bob",
        inherentOrganizationId |-> "org1", inherentTeamId |-> "team1",
        activeOrganizationId |-> "org1", activeTeamId |-> "team1" ] }

AcceptResults ==
    { [invitation |-> [organizationId |-> "org2", teamId |-> "team2"]],
      [invitation |-> [teamId |-> "team2"]],
      [invitation |-> [organizationId |-> "org2"]],
      [null |-> TRUE] }

OrganizationDatas == { [id |-> "org2"], [null |-> TRUE] }

TeamLists ==
    { <<>>,
      << [id |-> "team1", name |-> "One"], [id |-> "team2", name |-> "Team Two"] >> }

AccountLists ==
    { <<>>,
      << [providerId |-> "google", accountId |-> "g1"],
         [providerId |-> "github", accountId |-> "gh1"] >> }

\* the token parameter the page is opened with: none, empty, plain, with a
\* character to encode, already encoded, and with a stray percent sign
UrlTokens == { null, "", "sess1", "a+b", "a%2Bb", "100%" }

\* the credentials of two sign-ins and the session the Gateway has for each
FetchTokens == { "sess1", "sess2" }

SessionOf(token) ==
    IF token = "sess1"
    THEN [ id |-> "u1", email |-> "a@x.io", emailVerified |-> FALSE, name |-> "Ann" ]
    ELSE [ id |-> "u2", email |-> "b@x.io", emailVerified |-> TRUE, name |-> "Bob",
           inherentOrganizationId |-> "org1", inherentTeamId |-> "team1",
           activeOrganizationId |-> "org1", activeTeamId |-> "team1" ]

\* what tokenStorage.save is called with
VaultTokens == SessionTokens \cup { "sess2", null }

\* what setError is called with
StoreErrors == { null, "Test error" }

\* what updateUser is called with: a field the user has, one it may lack, several
UserUpdates ==
    { [ name |-> "Zed" ],
      [ activeTeamId |-> "team2" ],
      [ emailVerified |-> TRUE, inherentOrganizationId |-> "org1" ] }

\* what setActiveOrganizationId and setActiveTeamId are called with
OrganizationIds == { null, undefined, "org2" }

TeamIds == { null, undefined, "team2" }

\* the setupCompanionTeam runs of one behaviour
MaxRuns == 2

\* the users a session carries: unverified, verified and not onboarded, and
\* onboarded with neither, one or both of the active ids
SyncUsers ==
    { [ id |-> "u1", email |-> "a@x.io", emailVerified |-> FALSE, name |-> "Ann" ],
      [ id |-> "u3", email |-> "c@x.io", emailVerified |-> TRUE, name |-> "Cy" ],
      [ id |-> "u2", email |-> "b@x.io", emailVerified |-> TRUE, name |-> "Bob",
        inherentOrganizationId |-> "org1", inherentTeamId |-> "team1" ],
      [ id |-> "u2", email |-> "b@x.io", emailVerified |-> TRUE, name |-> "Bob",
        inherentOrganizationId |-> "org1", inherentTeamId |-> "team1",
        activeOrganizationId |-> "org2" ],
      [ id |-> "u2", email |-> "b@x.io", emailVerified |-> TRUE, name |-> "Bob",
        inherentOrganizationId |-> "org1", inherentTeamId |-> "team1",
        activeTeamId |-> "team1" ],
      [ id |-> "u2", email |-> "b@x.io", emailVerified |-> TRUE, name |-> "Bob",
        inherentOrganizationId |-> "org1", inherentTeamId |-> "team1",
        activeOrganizationId |-> "org1", activeTeamId |-> "team1" ] }

\* the users useSession delivers: each of them unless one active id is set
SessionUsers ==
    { user \in SyncUsers :
        Has(user, "activeOrganizationId") <=> Has(user, "activeTeamId") }

\* the session get-session answers after onboard
OnboardedSessions ==
    { NoUser,
      [ id |-> "u3", email |-> "c@x.io", emailVerified |-> TRUE, name |-> "Cy",
        inherentOrganizationId |-> "org3", inherentTeamId |-> "team3" ] }

\* the sessions a successful get-session delivers after onboard: the one with
\* the companion organization and team, and one that has them active as well
ActivatedSessions ==
    (OnboardedSessions \ { NoUser })
    \cup { [ id |-> "u3", email |-> "c@x.io", emailVerified |-> TRUE, name |-> "Cy",
             inherentOrganizationId |-> "org3", inherentTeamId |-> "team3",
             activeOrganizationId |-> "org3", activeTeamId |-> "team3" ] }

\* what the Gateway answers to a call of setupCompanionTeam
CompanionStatuses == { 200, 401, 500 }

Paths == { "/", "/auth/callback/google" }

\* the tokens setupCompanionTeam is called with directly
CompanionTokens == { null, "", "  ", "sess1" }

-----------------------------------------------------------------------------
(* Initial state: createAuthStore on a fresh page *)

Init ==
    /\ lsFault \in { "none", "quota", "denied" }
    /\ localStorage \in { null } \cup SessionTokens
    /\ authStore = [ user            |-> NoUser,
                     isAuthenticated |-> FALSE,
                     isLoaded        |-> FALSE,
                     loading         |-> FALSE,
                     error           |-> null,
                     token           |-> getStoredToken([localStorage |-> localStorage]) ]
    /\ fetches = [token \in SessionTokens |-> 0]
    /\ cb = IdleCb
    /\ sync = [Unmounted EXCEPT !.path = "/", !.inline = TRUE]
    /\ urlToken = null

Commit(w, c) ==
    /\ authStore' = w.authStore
    /\ localStorage' = w.localStorage
    /\ cb' = c
    /\ UNCHANGED <<lsFault, sync, urlToken>>

Suspended(type, pc) == cb.type = type /\ cb.pc = pc /\ cb.promise = "pending"

Answer(c, answer) == [c EXCEPT !.gw = answer]

-----------------------------------------------------------------------------
(* Actions of the callback resolver *)

\* the caller invokes handleCallback(type, token, options)
Callback(type, token, options, entry) ==
    /\ cb.pc = "idle"
    /\ Commit(World, handleCallback(World, type, token, options, entry))
    /\ UNCHANGED fetches

\* signup: verifyEmail runs onSuccess
SignupSuccess(data) ==
    /\ Suspended("signup", "verifyEmail")
    /\ LET r == EmailVerificationOnSuccess(World, Answer(cb, [kind |-> "success", data |-> data]), data)
       IN  Commit(r.w, r.cb)
    /\ UNCHANGED fetches

\* signup: verifyEmail runs onError; signOut, when onError calls it, returns a
\* promise that resolves or rejects
SignupError(error, signOut) ==
    /\ Suspended("signup", "verifyEmail")
    /\ LET answer == [ kind    |-> "error",
                       error   |-> error,
                       signOut |-> IF isExpired(error) THEN signOut ELSE "none" ]
           r      == EmailVerificationOnError(World, Answer(cb, answer), error)
       IN  Commit(r.w, r.cb)
    /\ UNCHANGED fetches

\* signup: the verifyEmail promise rejects; nothing handles the rejection
SignupTransportFailure ==
    /\ Suspended("signup", "verifyEmail")
    /\ cb' = [Answer(cb, [kind |-> "reject"]) EXCEPT !.pc = "abandoned"]
    /\ UNCHANGED <<authStore, localStorage, lsFault, fetches, sync, urlToken>>

DeleteUserSuccess ==
    /\ Suspended("delete-user", "deleteUser")
    /\ Commit(World, DeleteUserOnSuccess(World, Answer(cb, [kind |-> "success"])))
    /\ UNCHANGED fetches

DeleteUserError(error) ==
    /\ Suspended("delete-user", "deleteUser")
    /\ Commit(World, DeleteUserOnError(Answer(cb, [kind |-> "error", error |-> error]), error))
    /\ UNCHANGED fetches

\* delete-user: the deleteUser promise rejects; nothing handles the rejection
DeleteUserTransportFailure ==
    /\ Suspended("delete-user", "deleteUser")
    /\ cb' = [Answer(cb, [kind |-> "reject"]) EXCEPT !.pc = "abandoned"]
    /\ UNCHANGED <<authStore, localStorage, lsFault, fetches, sync, urlToken>>

ConfirmChangeEmailSuccess(data) ==
    /\ Suspended("confirm-change-email", "verifyEmail")
    /\ Commit(World, ConfirmChangeEmailOnSuccess(Answer(cb, [kind |-> "success", data |-> data]), data))
    /\ UNCHANGED fetches

ConfirmChangeEmailError(error) ==
    /\ Suspended("confirm-change-email", "verifyEmail")
    /\ Commit(World, ConfirmChangeEmailOnError(Answer(cb, [kind |-> "error", error |-> error]), error))
    /\ UNCHANGED fetches

\* confirm-change-email: the verifyEmail promise rejects; .catch resolves
ConfirmChangeEmailTransportFailure ==
    /\ Suspended("confirm-change-email", "verifyEmail")
    /\ Commit(World, ConfirmChangeEmailCatch(Answer(cb, [kind |-> "reject"])))
    /\ UNCHANGED fetches

\* verify-change-email onSuccess up to the listAccounts request
VerifyChangeEmailSuccess(data) ==
    /\ Suspended("verify-change-email", "verifyEmail")
    /\ LET c         == Answer(cb, [kind |-> "success", data |-> data])
           authToken == get(World)
       IN  IF StatusNotTrue(data)
           THEN /\ Commit(World, Resolve(c, VerificationFailed("verify-change-email")))
                /\ UNCHANGED fetches
           ELSE IF Truthy(authToken)
                THEN /\ Commit(fetchAndSetSessionStart(World, authToken),
                               [Call(Call(c, "getSession"), "listAccounts")
                                   EXCEPT !.pc = "listAccounts"])
                     /\ fetches' = [fetches EXCEPT ![authToken] = IF @ < MaxFetches THEN @ + 1 ELSE @]
                ELSE /\ Commit(World, VerifyChangeEmailResolve(World, c))
                     /\ UNCHANGED fetches

\* verify-change-email: listAccounts answered
VerifyChangeEmailAccountsListed(status, accounts) ==
    /\ Suspended("verify-change-email", "listAccounts")
    /\ LET w1 == IF status = 0 THEN World ELSE handleResponse(World, status)
           c1 == [cb EXCEPT !.gw = Spread(@, [accounts |-> [status |-> status]])]
       IN  IF ResponseOk(status) /\ \E i \in 1..Len(accounts) : accounts[i].providerId = "github"
           THEN Commit(w1, [Call(c1, "unlinkAccount") EXCEPT !.pc = "unlinkAccount"])
           ELSE Commit(w1, VerifyChangeEmailResolve(w1, c1))
    /\ UNCHANGED fetches

\* verify-change-email: unlinkAccount answered
VerifyChangeEmailUnlinked(status) ==
    /\ Suspended("verify-change-email", "unlinkAccount")
    /\ LET w1 == IF status = 0 THEN World ELSE handleResponse(World, status)
           c1 == [cb EXCEPT !.gw = Spread(@, [unlink |-> [status |-> status]])]
       IN  Commit(w1, VerifyChangeEmailResolve(w1, c1))
    /\ UNCHANGED fetches

VerifyChangeEmailError(error) ==
    /\ Suspended("verify-change-email", "verifyEmail")
    /\ Commit(World, Resolve(Answer(cb, [kind |-> "error", error |-> error]),
                             ErrorResult(error, IF isExpired(error)
                                                THEN LinkExpired("verify-change-email")
                                                ELSE SignIn)))
    /\ UNCHANGED fetches

\* verify-change-email: the verifyEmail promise rejects; .catch resolves
VerifyChangeEmailTransportFailure ==
    /\ Suspended("verify-change-email", "verifyEmail")
    /\ Commit(World, VerifyChangeEmailResolve(World, Answer(cb, [kind |-> "reject"])))
    /\ UNCHANGED fetches

\* faulty variant of InviteLoaded: the handler goes on without waiting for isLoaded
InviteLoadedWithoutWaiting ==
    /\ Suspended("invite", "waitForAuth")
    /\ Commit(World, InviteAfterWait(World, cb))
    /\ UNCHANGED fetches

\* invite: waitForAuth sees isLoaded
InviteLoaded ==
    /\ Suspended("invite", "waitForAuth")
    /\ authStore.isLoaded
    /\ Commit(World, InviteAfterWait(World, cb))
    /\ UNCHANGED fetches

InviteAcceptAnswered(status, result) ==
    /\ Suspended("invite", "acceptInvitation")
    /\ LET r == InviteAccepted(World, cb, status, result) IN Commit(r.w, r.cb)
    /\ UNCHANGED fetches

InviteOrganizationAnswered(status, data) ==
    /\ Suspended("invite", "setActiveOrganization")
    /\ LET r == InviteOrganizationSet(World, cb, status, data) IN Commit(r.w, r.cb)
    /\ UNCHANGED fetches

InviteTeamAnswered(status) ==
    /\ Suspended("invite", "setActiveTeam")
    /\ LET r == InviteTeamSet(World, cb, status) IN Commit(r.w, r.cb)
    /\ UNCHANGED fetches

InviteTeamsAnswered(status, teams) ==
    /\ Suspended("invite", "listUserTeams")
    /\ LET r == InviteTeamsListed(World, cb, status, teams) IN Commit(r.w, r.cb)
    /\ UNCHANGED fetches

\* the caller invokes handleOAuthCallback(token, isNewUser)
OAuthCallback(token, isNewUser) ==
    /\ cb.pc = "idle"
    /\ LET c == [IdleCb EXCEPT !.fn = "handleOAuthCallback", !.token = token,
                               !.options = [isNewUser |-> isNewUser], !.promise = "pending"]
           r == handleOAuthCallback(World, c, token)
       IN  Commit(r.w, r.cb)
    /\ UNCHANGED fetches

OAuthSessionAnswered(status, userData) ==
    /\ cb.fn = "handleOAuthCallback" /\ cb.pc = "oauthSession"
    /\ LET r == OAuthSessionFetched(World, cb, status, userData) IN Commit(r.w, r.cb)
    /\ UNCHANGED fetches

OAuthOnboardAnswered(status) ==
    /\ cb.fn = "handleOAuthCallback" /\ cb.pc = "onboard"
    /\ LET r == OAuthOnboarded(World, cb, status) IN Commit(r.w, r.cb)
    /\ UNCHANGED fetches

OAuthRefetchAnswered(status, userData) ==
    /\ cb.fn = "handleOAuthCallback" /\ cb.pc = "oauthRefetch"
    /\ LET r == OAuthRefetched(World, cb, status, userData) IN Commit(r.w, r.cb)
    /\ UNCHANGED fetches

\* the caller, resumed in the same task that settled the promise, takes the
\* outcome (or the rejection); the environment acts only between invocations
\* and while one is suspended
Consume ==
    /\ cb.pc = "settled"
    /\ cb' = IdleCb
    /\ UNCHANGED <<authStore, localStorage, lsFault, fetches, sync, urlToken>>

-----------------------------------------------------------------------------
(* Environment: session establishment and loss *)

\* authService.fetchAndSetSession(token), up to the get-session request
FetchAndSetSession(token) ==
    /\ cb.pc # "settled"
    /\ fetches[token] < MaxFetches
    /\ LET w == fetchAndSetSessionStart(World, token)
       IN  /\ authStore' = w.authStore
           /\ localStorage' = w.localStorage
    /\ fetches' = [fetches EXCEPT ![token] = @ + 1]
    /\ UNCHANGED <<lsFault, cb, sync, urlToken>>

\* a get-session request is answered
SessionFetched(token, status, userData) ==
    /\ cb.pc # "settled"
    /\ fetches[token] > 0
    /\ LET w == fetchAndSetSessionDone(World, status, userData)
       IN  /\ authStore' = w.authStore
           /\ localStorage' = w.localStorage
    /\ fetches' = [fetches EXCEPT ![token] = @ - 1]
    /\ UNCHANGED <<lsFault, cb, sync, urlToken>>

\* some other apiClient request is answered 401
Unauthorized ==
    /\ cb.pc # "settled"
    /\ LET w == handleUnauthorized(World)
       IN  /\ authStore' = w.authStore
           /\ localStorage' = w.localStorage
    /\ UNCHANGED <<lsFault, fetches, cb, sync, urlToken>>

Next ==
    \/ \E request \in Requests, entry \in Entries :
           Callback(request.type, request.token, request.options, entry)
    \/ \E token \in OAuthTokens, isNewUser \in BOOLEAN : OAuthCallback(token, isNewUser)
    \/ \E data \in Datas : SignupSuccess(data)
    \/ \E error \in Errors, signOut \in { "resolves", "rejects" } : SignupError(error, signOut)
    \/ SignupTransportFailure
    \/ DeleteUserSuccess
    \/ \E error \in Errors : DeleteUserError(error)
    \/ DeleteUserTransportFailure
    \/ \E data \in Datas : ConfirmChangeEmailSuccess(data)
    \/ \E error \in Errors : ConfirmChangeEmailError(error)
    \/ ConfirmChangeEmailTransportFailure
    \/ \E data \in Datas : VerifyChangeEmailSuccess(data)
    \/ \E status \in Statuses, accounts \in AccountLists :
           VerifyChangeEmailAccountsListed(status, accounts)
    \/ \E status \in Statuses : VerifyChangeEmailUnlinked(status)
    \/ \E error \in Errors : VerifyChangeEmailError(error)
    \/ VerifyChangeEmailTransportFailure
    \/ InviteLoaded
    \/ \E status \in Statuses, result \in AcceptResults : InviteAcceptAnswered(status, result)
    \/ \E status \in Statuses, data \in OrganizationDatas : InviteOrganizationAnswered(status, data)
    \/ \E status \in Statuses : InviteTeamAnswered(status)
    \/ \E status \in Statuses, teams \in TeamLists : InviteTeamsAnswered(status, teams)
    \/ \E status \in Statuses, userData \in Users \cup {NoUser} :
           OAuthSessionAnswered(status, userData)
    \/ \E status \in Statuses : OAuthOnboardAnswered(status)
    \/ \E status \in Statuses, userData \in Users \cup {NoUser} :
           OAuthRefetchAnswered(status, userData)
    \/ Consume
    \/ \E token \in SessionTokens : FetchAndSetSession(token)
    \/ \E token \in SessionTokens, status \in Statuses, userData \in Users \cup {NoUser} :
           SessionFetched(token, status, userData)
    \/ Unauthorized

Spec == Init /\ [][Next]_vars

\* a step of the invocation in flight: the event loop runs a completion that
\* is due, and the Gateway answers what it was asked
ResolverStep ==
    \/ \E data \in Datas : SignupSuccess(data)
    \/ \E error \in Errors, signOut \in { "resolves", "rejects" } : SignupError(error, signOut)
    \/ SignupTransportFailure
    \/ DeleteUserSuccess
    \/ \E error \in Errors : DeleteUserError(error)
    \/ DeleteUserTransportFailure
    \/ \E data \in Datas : ConfirmChangeEmailSuccess(data)
    \/ \E error \in Errors : ConfirmChangeEmailError(error)
    \/ ConfirmChangeEmailTransportFailure
    \/ \E data \in Datas : VerifyChangeEmailSuccess(data)
    \/ \E status \in Statuses, accounts \in AccountLists :
           VerifyChangeEmailAccountsListed(status, accounts)
    \/ \E status \in Statuses : VerifyChangeEmailUnlinked(status)
    \/ \E error \in Errors : VerifyChangeEmailError(error)
    \/ VerifyChangeEmailTransportFailure
    \/ InviteLoaded
    \/ \E status \in Statuses, result \in AcceptResults : InviteAcceptAnswered(status, result)
    \/ \E status \in Statuses, data \in OrganizationDatas : InviteOrganizationAnswered(status, data)
    \/ \E status \in Statuses : InviteTeamAnswered(status)
    \/ \E status \in Statuses, teams \in TeamLists : InviteTeamsAnswered(status, teams)
    \/ \E status \in Statuses, userData \in Users \cup {NoUser} :
           OAuthSessionAnswered(status, userData)
    \/ \E status \in Statuses : OAuthOnboardAnswered(status)
    \/ \E status \in Statuses, userData \in Users \cup {NoUser} :
           OAuthRefetchAnswered(status, userData)
    \/ Consume

FairSpec == Spec /\ WF_vars(ResolverStep)

\* handleOAuthCallback alone: nothing else talks to the Gateway while it runs
OAuthNext ==
    \/ \E token \in OAuthTokens, isNewUser \in BOOLEAN : OAuthCallback(token, isNewUser)
    \/ \E status \in Statuses, userData \in Users \cup {NoUser} :
           OAuthSessionAnswered(status, userData)
    \/ \E status \in Statuses : OAuthOnboardAnswered(status)
    \/ \E status \in Statuses, userData \in Users \cup {NoUser} :
           OAuthRefetchAnswered(status, userData)
    \/ Consume

OAuthSpec == Init /\ [][OAuthNext]_vars

-----------------------------------------------------------------------------
(* The store by itself: the application calls its actions in any order and   *)
(* the transport hands it the responses it receives                          *)

StoreCommit(w) ==
    /\ authStore' = w.authStore
    /\ localStorage' = w.localStorage
    /\ UNCHANGED <<lsFault, fetches, cb, sync, urlToken>>

StoreSetUser(user) == StoreCommit(setUser(World, user))

StoreSetLoading(loading) == StoreCommit(setLoading(World, loading))

StoreSetLoaded(loaded) == StoreCommit(setLoaded(World, loaded))

StoreSetError(error) == StoreCommit(setError(World, error))

StoreSetAuthenticated(user) == StoreCommit(setAuthenticated(World, user))

StoreClearAuth == StoreCommit(clearAuth(World))

StoreHandleUnauthorized == StoreCommit(handleUnauthorized(World))

StoreUpdateUser(updates) == StoreCommit(updateUser(World, updates))

StoreSetActiveOrganizationId(organizationId) ==
    StoreCommit(setActiveOrganizationId(World, organizationId))

StoreSetActiveTeamId(teamId) == StoreCommit(setActiveTeamId(World, teamId))

StoreInitialize(user, isLoaded) == StoreCommit(initialize(World, user, isLoaded))

StoreSave(token) == StoreCommit(save(World, token))

\* the transport has received a response with this status
StoreResponse(status) == StoreCommit(handleResponse(World, status))

StoreNext ==
    \/ \E user \in Users \cup { NoUser } : StoreSetUser(user)
    \/ \E loading \in BOOLEAN : StoreSetLoading(loading)
    \/ \E loaded \in BOOLEAN : StoreSetLoaded(loaded)
    \/ \E error \in StoreErrors : StoreSetError(error)
    \/ \E user \in Users : StoreSetAuthenticated(user)
    \/ StoreClearAuth
    \/ StoreHandleUnauthorized
    \/ \E updates \in UserUpdates : StoreUpdateUser(updates)
    \/ \E organizationId \in OrganizationIds : StoreSetActiveOrganizationId(organizationId)
    \/ \E teamId \in TeamIds : StoreSetActiveTeamId(teamId)
    \/ \E user \in Users \cup { NoUser }, isLoaded \in BOOLEAN : StoreInitialize(user, isLoaded)
    \/ \E token \in VaultTokens : StoreSave(token)
    \/ \E status \in Statuses \ { 0 } : StoreResponse(status)

StoreSpec == Init /\ [][StoreNext]_vars

-----------------------------------------------------------------------------
(* The session synchronisation: useAuthSync mounted on a page, and            *)
(* setupCompanionTeam called by it or directly                               *)

SyncInit ==
    /\ lsFault = "none"
    /\ localStorage \in { null } \cup SessionTokens
    /\ authStore = [ user            |-> NoUser,
                     isAuthenticated |-> FALSE,
                     isLoaded        |-> FALSE,
                     loading         |-> FALSE,
                     error           |-> null,
                     token           |-> getStoredToken([localStorage |-> localStorage]) ]
    /\ fetches = [token \in SessionTokens |-> 0]
    /\ cb = IdleCb
    /\ \E path \in Paths, inline \in BOOLEAN :
           sync = [Unmounted EXCEPT !.path = path, !.renderedPath = path, !.inline = inline]
    /\ urlToken = null

SyncCommit(w, s) ==
    /\ authStore' = w.authStore
    /\ localStorage' = w.localStorage
    /\ sync' = s
    /\ UNCHANGED <<lsFault, fetches, cb, urlToken>>

\* useSession delivers and the hook renders
Reconcile(user, isPending, fresh) ==
    /\ (sync.rendered /\ ~fresh) => user = sync.user
    /\ LET r == useAuthSync(World, sync, user, isPending, fresh)
       IN  /\ Len(r.sync.runs) <= MaxRuns
           /\ SyncCommit(r.w, [r.sync EXCEPT
                  !.renderedPath = sync.path,
                  !.lifetime = (IF user = NoUser THEN 0 ELSE @)
                                   + (Len(r.sync.runs) - Len(sync.runs))])

\* the page navigates
Navigate(path) ==
    /\ path # sync.path
    /\ sync' = [sync EXCEPT !.path = path]
    /\ UNCHANGED <<authStore, localStorage, lsFault, fetches, cb, urlToken>>

\* setupCompanionTeam is called by the application itself
SetupCompanionTeam(token) ==
    /\ Len(sync.runs) < MaxRuns
    /\ SyncCommit(World, [sync EXCEPT !.runs = Append(@, setupCompanionTeam(World, "direct", token))])

RunAt(i, pc) == i \in 1..Len(sync.runs) /\ sync.runs[i].pc = pc

CompanionOnboardAnswered(i, status) ==
    /\ RunAt(i, "onboard")
    /\ LET r == CompanionOnboarded(World, sync.runs[i], status)
       IN  SyncCommit(r.w, Settle(sync, i, r.run))

CompanionSessionAnswered(i, status, session) ==
    /\ RunAt(i, "getSession")
    /\ LET r == CompanionSessionFetched(World, sync.runs[i], status, session)
       IN  SyncCommit(r.w, Settle(sync, i, r.run))

CompanionOrganizationAnswered(i, status, known) ==
    /\ RunAt(i, "setActiveOrganization")
    /\ LET data == IF known THEN [id |-> sync.runs[i].user.inherentOrganizationId]
                   ELSE [null |-> TRUE]
           r    == CompanionOrganizationSet(World, sync.runs[i], status, data)
       IN  SyncCommit(r.w, Settle(sync, i, r.run))

CompanionTeamAnswered(i, status) ==
    /\ RunAt(i, "setActiveTeam")
    /\ LET r == CompanionTeamSet(World, sync.runs[i], status)
       IN  SyncCommit(r.w, Settle(sync, i, r.run))

\* a step of a setupCompanionTeam run in flight
CompanionStep ==
    \E i \in 1..MaxRuns :
        \/ \E status \in CompanionStatuses : CompanionOnboardAnswered(i, status)
        \/ \E status \in CompanionStatuses, session \in OnboardedSessions :
               CompanionSessionAnswered(i, status, session)
        \/ \E status \in CompanionStatuses, known \in BOOLEAN :
               CompanionOrganizationAnswered(i, status, known)
        \/ \E status \in CompanionStatuses : CompanionTeamAnswered(i, status)

SyncNext ==
    \/ \E user \in SessionUsers \cup { NoUser }, isPending, fresh \in BOOLEAN :
           Reconcile(user, isPending, fresh)
    \/ \E path \in Paths : Navigate(path)
    \/ CompanionStep

SyncSpec == SyncInit /\ [][SyncNext]_vars

\* One session on a page outside the skip list, the Gateway answering every
\* call with success: the hook is mounted, useSession delivers one session
\* object and keeps it, and nobody signs out
BootInit ==
    /\ SyncInit
    /\ sync.path = "/"

\* useSession is pending, then delivers its session; the render repeats after that
BootReconcile(user, isPending) ==
    /\ sync.user # NoUser => user = sync.user
    /\ (sync.rendered /\ ~sync.isPending) => ~isPending
    /\ Reconcile(user, isPending, sync.user = NoUser)

\* the Gateway answers the call of the run in flight with success
BootStep ==
    \E i \in 1..MaxRuns :
        \/ CompanionOnboardAnswered(i, 200)
        \/ \E session \in ActivatedSessions : CompanionSessionAnswered(i, 200, session)
        \/ CompanionOrganizationAnswered(i, 200, TRUE)
        \/ CompanionTeamAnswered(i, 200)

BootNext ==
    \/ \E user \in SyncUsers \cup { NoUser }, isPending \in BOOLEAN :
           BootReconcile(user, isPending)
    \/ BootStep

\* the Gateway answers every call of a run in flight
BootSpec == BootInit /\ [][BootNext]_vars /\ WF_vars(BootStep)

\* setupCompanionTeam called by the application on a store that holds any session
CompanionInit ==
    /\ lsFault = "none"
    /\ localStorage \in { null } \cup SessionTokens
    /\ \E user \in SyncUsers \cup { NoUser } :
           authStore = [ user            |-> user,
                         isAuthenticated |-> user # NoUser,
                         isLoaded        |-> TRUE,
                         loading         |-> FALSE,
                         error           |-> null,
                         token           |-> getStoredToken([localStorage |-> localStorage]) ]
    /\ fetches = [token \in SessionTokens |-> 0]
    /\ cb = IdleCb
    /\ sync = Unmounted
    /\ urlToken = null

CompanionNext ==
    \/ \E token \in CompanionTokens : SetupCompanionTeam(token)
    \/ CompanionStep
    \/ Unauthorized

CompanionSpec == CompanionInit /\ [][CompanionNext]_vars

-----------------------------------------------------------------------------
(* The two callers of the compound activation on one store: an invitation    *)
(* accepted through handleCallback and setupCompanionTeam                    *)

\* the caller resolves an invitation link
InviteCallback == Callback("invite", null, [invitationId |-> "inv1"], "returns")

\* a step of the invitation in flight: the invitation is accepted and names
\* an organization and a team, the two activation calls are answered in any way
InviteStep ==
    \/ InviteLoaded
    \/ InviteAcceptAnswered(200, [invitation |-> [organizationId |-> "org2", teamId |-> "team2"]])
    \/ \E status \in Statuses, data \in OrganizationDatas : InviteOrganizationAnswered(status, data)
    \/ \E status \in Statuses : InviteTeamAnswered(status)
    \/ \E teams \in TeamLists : InviteTeamsAnswered(200, teams)
    \/ Consume

ActivationNext ==
    \/ InviteCallback
    \/ InviteStep
    \/ \E token \in SessionTokens : SetupCompanionTeam(token)
    \/ CompanionStep
    \/ Unauthorized

ActivationSpec == CompanionInit /\ [][ActivationNext]_vars

-----------------------------------------------------------------------------
(* Session fetches for two credentials and the hook writing to one store *)

FetchInit ==
    /\ lsFault \in { "none", "quota", "denied" }
    /\ localStorage \in { null } \cup FetchTokens
    /\ authStore = [ user            |-> NoUser,
                     isAuthenticated |-> FALSE,
                     isLoaded        |-> FALSE,
                     loading         |-> FALSE,
                     error           |-> null,
                     token           |-> getStoredToken([localStorage |-> localStorage]) ]
    /\ fetches = [token \in FetchTokens |-> 0]
    /\ cb = IdleCb
    /\ sync = Unmounted
    /\ urlToken = null

\* the get-session request made with token is answered: with the session of
\* that token, with no session, or with a failure
SessionAnswered(token, status, found) ==
    SessionFetched(token, status, IF found THEN SessionOf(token) ELSE NoUser)

\* the sync effect of useAuthSync runs with what useSession delivered
SessionSynced(user, isPending) == StoreCommit(SyncStore(World, user, isPending))

FetchNext ==
    \/ \E token \in FetchTokens : FetchAndSetSession(token)
    \/ \E token \in FetchTokens, status \in Statuses, found \in BOOLEAN :
           SessionAnswered(token, status, found)
    \/ \E token \in FetchTokens \cup { null }, isPending \in BOOLEAN :
           SessionSynced(IF token = null THEN NoUser ELSE SessionOf(token), isPending)

FetchSpec == FetchInit /\ [][FetchNext]_vars

-----------------------------------------------------------------------------
(* Startup: initializeAuth on the page the application is opened with *)

StartupInit ==
    /\ lsFault \in { "none", "quota", "denied" }
    /\ localStorage \in { null } \cup SessionTokens
    /\ authStore = [ user            |-> NoUser,
                     isAuthenticated |-> FALSE,
                     isLoaded        |-> FALSE,
                     loading         |-> FALSE,
                     error           |-> null,
                     token           |-> getStoredToken([localStorage |-> localStorage]) ]
    /\ fetches = [token \in SessionTokens |-> 0]
    /\ cb = IdleCb
    /\ sync = Unmounted
    /\ urlToken \in UrlTokens

\* the application calls initializeAuth
InitializeAuth ==
    /\ cb.pc = "idle"
    /\ LET r == initializeAuth(World, [IdleCb EXCEPT !.fn = "initializeAuth"], urlToken)
       IN  /\ authStore' = r.w.authStore
           /\ localStorage' = r.w.localStorage
           /\ cb' = r.cb
           /\ urlToken' = r.urlToken
    /\ UNCHANGED <<lsFault, fetches, sync>>

\* the Gateway answers the get-session request of the startup
StartupSessionAnswered(status, userData) ==
    /\ cb.fn = "initializeAuth" /\ cb.pc = "startupSession"
    /\ LET r == StartupSessionFetched(World, cb, status, userData)
       IN  Commit(r.w, r.cb)
    /\ UNCHANGED fetches

StartupNext ==
    \/ InitializeAuth
    \/ \E status \in Statuses, userData \in Users \cup { NoUser } :
           StartupSessionAnswered(status, userData)
    \/ Consume
    \/ Unauthorized

StartupSpec == StartupInit /\ [][StartupNext]_vars

-----------------------------------------------------------------------------
(* Properties of the callback resolver *)

\* this step is the call of handleCallback
Invoked == cb.pc = "idle" /\ cb'.pc # "idle" /\ cb'.fn = "handleCallback"

\* this step is the completion of the Gateway call of a handler of this type
Answered(type, kind) ==
    /\ cb.type = type
    /\ cb.pc \in { "verifyEmail", "deleteUser" }
    /\ cb'.gw.kind = kind

\* the store, the credential and the requests in flight are left alone
StoreUntouched == UNCHANGED <<authStore, localStorage, fetches>>

LinkExpiredFor(type) == "/auth/link-expired?type=" \o type \o "&lang=us"

\* C1: the promise returned by handleCallback never rejects, whatever the
\* type, token, options and Gateway behaviour.
C1_NeverRejects == cb.promise # "rejected"

\* C2: every outcome handleCallback resolves with carries a redirectTo path.
C2_AlwaysRedirect ==
    cb.promise = "fulfilled" => Has(cb.outcome, "redirectTo")

\* C2 (amended): every outcome carries a redirectTo path, except the outcome
\* of delete-user with a non-empty token on an unauthenticated store, which
\* carries needsLogin = true and no redirectTo.
C2_RedirectOrNeedsLogin ==
    cb.promise = "fulfilled" =>
        \/ Has(cb.outcome, "redirectTo") /\ Truthy(cb.outcome.redirectTo)
        \/ /\ cb.type = "delete-user"
           /\ Truthy(cb.token)
           /\ ~authStore.isAuthenticated
           /\ Has(cb.outcome, "needsLogin")
           /\ cb.outcome.needsLogin = TRUE

C2_Witness ==
    /\ cb.promise = "fulfilled"
    /\ cb.type = "invite"
    /\ cb.calls = << "acceptInvitation", "setActiveOrganization", "setActiveTeam", "listUserTeams" >>
    /\ Has(cb.outcome, "redirectTo")

\* C3: for the types other than the two change-email ones, a Gateway call
\* whose promise rejects without either callback running leads to an outcome
\* with success = false; the invocation does not stay pending.
C3_TransportFailureSurfaces ==
    (cb.type \in { "signup", "delete-user" } /\ cb.gw.kind = "reject")
        ~> (cb.promise = "fulfilled" /\ cb.outcome.success = FALSE)

\* C4: signup, confirm-change-email and verify-change-email with an empty or
\* null token return the "Token is required" failure redirecting to the
\* link-expired path with their own type, make no Gateway call and change
\* neither the store nor the credential.
C4_TokenRequired ==
    [][ ( /\ Invoked
          /\ cb'.type \in { "signup", "confirm-change-email", "verify-change-email" }
          /\ ~Truthy(cb'.token) )
        => ( /\ cb'.promise = "fulfilled"
             /\ cb'.outcome = [ success    |-> FALSE,
                                error      |-> "Token is required",
                                redirectTo |-> cfg.linkExpiredPath \o "?type=" \o cb'.type
                                                   \o "&lang=" \o cfg.lang ]
             /\ cb'.calls = <<>>
             /\ StoreUntouched ) ]_vars

C4_Witness ==
    /\ cb.pc = "settled"
    /\ cb.type = "confirm-change-email"
    /\ cb.token = ""
    /\ cb.outcome.redirectTo = "/auth/link-expired?type=confirm-change-email&lang=us"

\* C5: a null or unrecognised type always returns {success: true, redirectTo:
\* defaultRedirect}, makes no Gateway call and leaves the store and the
\* credential unchanged, whatever the token and options.
C5_UnrecognisedType ==
    [][ ( /\ Invoked
          /\ cb'.type \notin { "signup", "delete-user", "reset-password", "invite",
                               "confirm-change-email", "verify-change-email" } )
        => ( /\ cb'.promise = "fulfilled"
             /\ cb'.outcome = [success |-> TRUE, redirectTo |-> "/"]
             /\ cb'.calls = <<>>
             /\ StoreUntouched ) ]_vars

C5_Witness ==
    /\ cb.pc = "settled"
    /\ cb.type = "oauth"
    /\ cb.token = "tok1"
    /\ cb.options = [invitationId |-> "inv1"]
    /\ authStore.isAuthenticated

\* C6: for delete-user, whenever the store is not authenticated the outcome is
\* {success: false, needsLogin: true, data: {token}}, deleteUser is not called
\* and the store and the credential are unchanged.
C6_NeedsLoginWhenever ==
    [][ ( /\ Invoked
          /\ cb'.type = "delete-user"
          /\ ~authStore.isAuthenticated )
        => ( /\ cb'.promise = "fulfilled"
             /\ cb'.outcome.success = FALSE
             /\ Has(cb'.outcome, "needsLogin")
             /\ cb'.calls = <<>>
             /\ StoreUntouched ) ]_vars

\* C6 (amended): for delete-user with a non-empty token, whenever the store is
\* not authenticated the outcome is {success: false, needsLogin: true,
\* data: {token}} with the token passed in and no redirect, deleteUser is not
\* called and the store and the credential are unchanged.
C6_NeedsLogin ==
    [][ ( /\ Invoked
          /\ cb'.type = "delete-user"
          /\ Truthy(cb'.token)
          /\ ~authStore.isAuthenticated )
        => ( /\ cb'.promise = "fulfilled"
             /\ cb'.outcome.success = FALSE
             /\ Has(cb'.outcome, "needsLogin")
             /\ cb'.outcome.needsLogin = TRUE
             /\ cb'.outcome.data = [token |-> cb'.token]
             /\ ~Has(cb'.outcome, "redirectTo")
             /\ cb'.calls = <<>>
             /\ StoreUntouched ) ]_vars

C6_Witness ==
    /\ cb.pc = "settled"
    /\ cb.type = "delete-user"
    /\ cb.token = "tok1"
    /\ authStore.user = NoUser
    /\ Has(cb.outcome, "data")
    /\ cb.outcome.data.token = "tok1"

C8_OtherErrorToSignIn ==
    [][ ( /\ Answered("signup", "error")
          /\ Prop(cb'.gw.error, "code") \notin { "INVALID_TOKEN", "SESSION_EXPIRED" }
          /\ ~(Has(cb'.gw.error, "message") /\ Includes(cb'.gw.error.message, "expired")) )
        => ( /\ cb'.promise = "fulfilled"
             /\ cb'.outcome.success = FALSE
             /\ cb'.outcome.redirectTo = "/sign-in?lang=us"
             /\ Prop(cb'.outcome, "errorCode") = Prop(cb'.gw.error, "code")
             /\ StoreUntouched ) ]_vars

\* C9: for signup and delete-user, a Gateway error with no code whose message
\* contains "expired" is classified EXPIRED: success = false and a redirect
\* to the link-expired path with type equal to the kind.
C9_ExpiredByMessage ==
    ( /\ cb.pc = "settled"
      /\ cb.type \in { "signup", "delete-user" }
      /\ cb.gw.kind = "error"
      /\ ~Has(cb.gw.error, "code")
      /\ Has(cb.gw.error, "message")
      /\ Includes(cb.gw.error.message, "expired") )
    => ( /\ cb.promise = "fulfilled"
         /\ cb.outcome.success = FALSE
         /\ cb.outcome.redirectTo = LinkExpiredFor(cb.type) )

C9_Witness ==
    /\ cb.pc = "settled"
    /\ cb.type = "delete-user"
    /\ cb.gw.kind = "error"
    /\ cb.gw.error = [message |-> "Token has expired"]
    /\ cb.outcome.redirectTo = "/auth/link-expired?type=delete-user&lang=us"

\* the user fields other than emailVerified, and everything else in the store
SessionOtherwiseUnchanged ==
    /\ DOMAIN authStore'.user = DOMAIN authStore.user
    /\ \A k \in DOMAIN authStore.user \ { "emailVerified" } :
           authStore'.user[k] = authStore.user[k]
    /\ \A k \in DOMAIN authStore \ { "user" } : authStore'[k] = authStore[k]
    /\ UNCHANGED <<localStorage, fetches>>

\* C10: for signup with a non-empty token and verifyEmail succeeding, the
\* outcome is {success: true, redirectTo: defaultRedirect}; an existing
\* Session gets emailVerified = true and nothing else changes; with no
\* Session the store is unchanged.
C10_SuccessCallbackVerifies ==
    [][ Answered("signup", "success")
        => ( /\ cb'.promise = "fulfilled"
             /\ cb'.outcome = [success |-> TRUE, redirectTo |-> "/"] ) ]_vars

\* C10 (amended): for signup with a non-empty token and verifyEmail succeeding
\* with data.status = true, the outcome is {success: true, redirectTo:
\* defaultRedirect}; an existing Session gets emailVerified = true while every
\* other Session field, the auth flags and the credential are unchanged; with
\* no Session the store is unchanged.
C10_VerifiedMergesFlag ==
    [][ ( /\ Answered("signup", "success")
          /\ cb'.gw.data = [status |-> TRUE] )
        => ( /\ Truthy(cb.token)
             /\ cb'.promise = "fulfilled"
             /\ cb'.outcome = [success |-> TRUE, redirectTo |-> "/"]
             /\ IF authStore.user # NoUser
                THEN authStore'.user.emailVerified = TRUE /\ SessionOtherwiseUnchanged
                ELSE StoreUntouched ) ]_vars

C10_Witness ==
    /\ cb.pc = "settled"
    /\ cb.type = "signup"
    /\ cb.gw.kind = "success"
    /\ cb.gw.data = [status |-> TRUE]
    /\ authStore.user # NoUser
    /\ authStore.user.id = "u1"
    /\ authStore.user.emailVerified = TRUE

\* the email query of the delete-success redirect, as the browser sends it
EmailQuery(email) ==
    CASE email = "u+1@x.io" -> "&email=u%2B1%40x.io"
      [] email = "a@x.io"   -> "&email=a%40x.io"
      [] email = "b@x.io"   -> "&email=b%40x.io"
      [] OTHER              -> ""

C12_ResetPassword ==
    [][ ( Invoked /\ cb'.type = "reset-password" )
        => ( /\ cb'.promise = "fulfilled"
             /\ cb'.calls = <<>>
             /\ StoreUntouched
             /\ cb'.outcome =
                    [ success    |-> TRUE,
                      redirectTo |-> IF cb'.token \in { null, "" }
                                     THEN "/reset-password?lang=us"
                                     ELSE "/reset-password?token=" \o cb'.token \o "&lang=us" ] ) ]_vars

C12_Witness ==
    /\ cb.pc = "settled"
    /\ cb.type = "reset-password"
    /\ cb.token = "tok1"
    /\ authStore.isAuthenticated
    /\ cb.outcome.redirectTo = "/reset-password?token=tok1&lang=us"

\* C13: for invite the resolver first suspends until isLoaded is true: while
\* isLoaded is false it produces no outcome.
C13_NoOutcomeBeforeLoaded ==
    [][ ( Invoked /\ cb'.type = "invite" /\ ~authStore.isLoaded )
        => cb'.promise = "pending" ]_vars

\* C13 (amended): for invite, a missing invitationId yields {success: false,
\* error: "Invitation ID is required", redirectTo: defaultRedirect} at once,
\* whether or not isLoaded is true; with an invitationId the resolver suspends
\* until isLoaded is true: while it waits it produces no outcome and makes no
\* Gateway call, it goes on only in a state where isLoaded is true, and once
\* isLoaded is true the invocation eventually resolves.
C13_InviteWaitsForLoaded ==
    /\ [][ ( Invoked /\ cb'.type = "invite" )
            => IF Has(cb'.options, "invitationId")
               THEN /\ cb'.pc = "waitForAuth"
                    /\ cb'.promise = "pending"
                    /\ StoreUntouched
               ELSE /\ cb'.promise = "fulfilled"
                    /\ cb'.outcome = [ success    |-> FALSE,
                                       error      |-> "Invitation ID is required",
                                       redirectTo |-> "/" ]
                    /\ cb'.calls = <<>>
                    /\ StoreUntouched ]_vars
    /\ []( cb.pc = "waitForAuth"
             => cb.promise = "pending" /\ cb.outcome = NoResult /\ cb.calls = <<>> )
    /\ [][ ( cb.pc = "waitForAuth" /\ cb'.pc # "waitForAuth" ) => authStore.isLoaded ]_vars
    /\ ( ( cb.pc = "waitForAuth" /\ authStore.isLoaded ) ~> cb.promise = "fulfilled" )

C13_Witness ==
    /\ cb.pc = "waitForAuth"
    /\ cb.type = "invite"
    /\ cb.options = [invitationId |-> "inv1"]
    /\ ~authStore.isLoaded
    /\ fetches["sess1"] = 1

\* C14: for invite with an invitationId, when tokenStorage.get() gives no
\* credential once isLoaded is true, the resolver calls neither
\* acceptInvitation nor any activation call, leaves the store alone and
\* returns success = true with a redirect to the sign-in path carrying that
\* invitationId as the invitationId query parameter.
C14_InviteDefersToSignIn ==
    [][ ( /\ cb.pc = "waitForAuth"
          /\ cb'.pc # "waitForAuth"
          /\ getStoredToken([localStorage |-> localStorage]) \in { null, "" } )
        => ( /\ cb'.promise = "fulfilled"
             /\ cb'.calls = <<>>
             /\ cb'.outcome = [ success    |-> TRUE,
                                redirectTo |-> "/sign-in?lang=us&invitationId="
                                                   \o cb.options.invitationId ]
             /\ StoreUntouched ) ]_vars

C14_Witness ==
    /\ cb.pc = "settled"
    /\ cb.type = "invite"
    /\ cb.calls = <<>>
    /\ authStore.isLoaded
    /\ authStore.token = "sess1"
    /\ cb.outcome.redirectTo = "/sign-in?lang=us&invitationId=inv1"

\* the calls of an invite that joins a team of another organization, in order
InviteCalls == << "acceptInvitation", "setActiveOrganization", "setActiveTeam", "listUserTeams" >>

\* acceptInvitation succeeded with an invitation naming an organization and a team
AcceptedBoth(c) ==
    /\ c.type = "invite"
    /\ c.gw.kind = "accepted"
    /\ c.gw.status = 200
    /\ Has(c.gw.invitation, "organizationId")
    /\ Has(c.gw.invitation, "teamId")

\* C15: for invite with a credential, when acceptInvitation returns an
\* invitation with both organizationId and teamId, the calls that follow are
\* setActiveOrganization and then setActiveTeam, exactly once each;
\* setActiveTeam starts only in the step in which setActiveOrganization
\* completed successfully, and the team-name lookup starts, and the redirect
\* to the team workspace is computed, only after both have completed
\* successfully.
C15_ActivationInOrder ==
    /\ []( AcceptedBoth(cb)
             => /\ Len(cb.calls) \in 2..4
                /\ cb.calls = SubSeq(InviteCalls, 1, Len(cb.calls)) )
    /\ [][ ( AcceptedBoth(cb') /\ Len(cb'.calls) = 3 /\ Len(cb.calls) = 2 )
            => ( /\ cb.pc = "setActiveOrganization"
                 /\ cb'.gw.organization.status = 200
                 /\ authStore.user # NoUser
                        => authStore'.user.activeOrganizationId = cb.gw.invitation.organizationId ) ]_vars
    /\ [][ ( AcceptedBoth(cb') /\ Len(cb'.calls) = 4 /\ Len(cb.calls) = 3 )
            => ( /\ cb.pc = "setActiveTeam"
                 /\ cb.gw.organization.status = 200
                 /\ cb'.gw.team.status = 200
                 /\ authStore.user # NoUser
                        => authStore'.user.activeTeamId = cb.gw.invitation.teamId ) ]_vars
    /\ []( ( AcceptedBoth(cb) /\ cb.promise = "fulfilled" /\ cb.outcome.success )
             => /\ cb.calls = InviteCalls
                /\ cb.gw.organization.status = 200
                /\ cb.gw.team.status = 200
                /\ SubSeq(cb.outcome.redirectTo, 1, 21) = "/workspace/team/team2" )

C15_Witness ==
    /\ cb.pc = "settled"
    /\ AcceptedBoth(cb)
    /\ cb.calls = InviteCalls
    /\ cb.gw.team.status = 200
    /\ authStore.user # NoUser
    /\ authStore.user.id = "u1"
    /\ authStore.user.activeOrganizationId = "org2"
    /\ authStore.user.activeTeamId = "team2"

\* one of acceptInvitation, setActiveOrganization and setActiveTeam failed
InviteStepFailed(c) ==
    \/ c.gw.status # 200
    \/ Has(c.gw, "organization")
           /\ (c.gw.organization.status # 200 \/ ~Has(c.gw.organization.data, "id"))
    \/ Has(c.gw, "team") /\ c.gw.team.status # 200

\* C16: for invite with a credential, a failure of acceptInvitation,
\* setActiveOrganization or setActiveTeam always gives the outcome
\* success = false whose redirect is the default path with
\* notification=inviteFailed, and the promise never rejects; a failure of the
\* team-name lookup leaves the outcome success = true with
\* notification=inviteAccepted.
C16_InviteFailuresSwallowed ==
    /\ cb.type = "invite" => cb.promise # "rejected"
    /\ ( cb.type = "invite" /\ cb.gw.kind = "accepted" /\ cb.pc = "settled" )
           => IF InviteStepFailed(cb)
              THEN cb.outcome = [ success    |-> FALSE,
                                  error      |-> "Failed to accept invitation",
                                  redirectTo |-> "/?notification=inviteFailed&lang=us" ]
              ELSE /\ cb.outcome.success = TRUE
                   /\ ( Has(cb.gw, "teams") /\ cb.gw.teams.status # 200 )
                          => cb.outcome.redirectTo =
                                 "/workspace/team/team2?notification=inviteAccepted&lang=us"

C16_Witness ==
    /\ cb.pc = "settled"
    /\ cb.type = "invite"
    /\ Has(cb.gw, "team")
    /\ cb.gw.team.status = 401
    /\ authStore.user = NoUser
    /\ cb.outcome.redirectTo = "/?notification=inviteFailed&lang=us"

\* the email-verification display page for the email the request shows:
\* options.newEmail, else the updateTo claim of the token, else empty
ExpectedVerifyEmailPage(c) ==
    "/verify-email?email="
        \o ( IF Has(c.options, "newEmail") THEN "new%40x.io"
             ELSE IF c.token = "h.eyJ1cGRhdGVUbyI6Im5AeC5pbyJ9.s" THEN "n%40x.io"
             ELSE "" )
        \o "&type=change-email&lang=us"

\* C17: for confirm-change-email with a non-empty token, when the promise of
\* verifyEmail rejects the outcome is success = true with the redirect of the
\* success path: the email-verification display page carrying the display
\* email (options.newEmail, else the value decoded from the token, else
\* empty), the change-email marker and lang.
C17_TransportFailureOptimistic ==
    [][ ( /\ cb.type = "confirm-change-email"
          /\ cb.pc = "verifyEmail"
          /\ \/ cb'.gw.kind = "reject"
             \/ cb'.gw.kind = "success" /\ cb'.gw.data = [status |-> TRUE] )
        => ( /\ Truthy(cb.token)
             /\ cb'.promise = "fulfilled"
             /\ cb'.outcome = [success |-> TRUE, redirectTo |-> ExpectedVerifyEmailPage(cb)]
             /\ cb'.calls = << "verifyEmail" >>
             /\ StoreUntouched ) ]_vars

C17_Witness ==
    /\ cb.pc = "settled"
    /\ cb.type = "confirm-change-email"
    /\ cb.gw.kind = "reject"
    /\ cb.options = NoOptions
    /\ cb.outcome.redirectTo = "/verify-email?email=n%40x.io&type=change-email&lang=us"

\* the outcome of confirm-change-email as a function of the token, the
\* options and the Gateway's answer alone
ExpectedConfirmOutcome(c) ==
    IF c.token \in { null, "" }
    THEN [ success    |-> FALSE,
           error      |-> "Token is required",
           redirectTo |-> "/auth/link-expired?type=confirm-change-email&lang=us" ]
    ELSE CASE c.gw.kind = "reject" ->
                [success |-> TRUE, redirectTo |-> ExpectedVerifyEmailPage(c)]
           [] c.gw.kind = "success" ->
                IF c.gw.data = [status |-> TRUE]
                THEN [success |-> TRUE, redirectTo |-> ExpectedVerifyEmailPage(c)]
                ELSE [ success    |-> FALSE,
                       error      |-> "Verification failed",
                       redirectTo |-> "/auth/link-expired?type=confirm-change-email&lang=us" ]
           [] c.gw.kind = "error" ->
                LET expired == \/ Prop(c.gw.error, "code") = "INVALID_TOKEN"
                               \/ Has(c.gw.error, "message")
                                      /\ Includes(c.gw.error.message, "expired")
                    base    == [ success    |-> FALSE,
                                 redirectTo |-> IF expired
                                                THEN "/auth/link-expired?type=confirm-change-email&lang=us"
                                                ELSE "/sign-in?lang=us" ]
                    message == IF Has(c.gw.error, "message")
                               THEN [error |-> c.gw.error.message] ELSE base
                    code    == IF Has(c.gw.error, "code")
                               THEN [errorCode |-> c.gw.error.code] ELSE base
                IN  Spread(Spread(base, message), code)

\* C18: the outcome of confirm-change-email does not depend on the store or
\* on the credential: it is a function of the token, the options and the
\* Gateway's answer, the same in every store and credential state, and the
\* handler changes neither; the email decoded from the token appears only in
\* the email query parameter of the success redirect, and a token that does
\* not decode changes nothing but that parameter.
C18_ConfirmIndependentOfSession ==
    /\ []( ( cb.type = "confirm-change-email" /\ cb.pc = "settled" )
             => IF cb.gw.kind = "throw"
                THEN cb.promise = "rejected"
                ELSE cb.promise = "fulfilled" /\ cb.outcome = ExpectedConfirmOutcome(cb) )
    /\ [][ ( cb'.type = "confirm-change-email" /\ cb' # cb ) => StoreUntouched ]_vars

C18_Witness ==
    /\ cb.pc = "settled"
    /\ cb.type = "confirm-change-email"
    /\ cb.token = "tok1"
    /\ cb.gw.kind = "success"
    /\ cb.gw.data = [status |-> TRUE]
    /\ ~authStore.isAuthenticated
    /\ getStoredToken([localStorage |-> localStorage]) = null
    /\ cb.outcome = [ success    |-> TRUE,
                      redirectTo |-> "/verify-email?email=&type=change-email&lang=us" ]

\* the redirect after a completed email change: home with a credential,
\* sign-in without, with the new email when the token tells it
ExpectedEmailChanged(token, credential) ==
    ( IF credential THEN "/" ELSE "/sign-in" )
        \o "?notification=emailChanged"
        \o ( CASE token = "h.eyJ1cGRhdGVUbyI6Im5AeC5pbyJ9.s" -> "&email=n%40x.io"
               [] token = "h.eyJlbWFpbCI6ImVAeC5pbyJ9.s"     -> "&email=e%40x.io"
               [] OTHER                                       -> "" )
        \o "&lang=us"

\* verify-change-email answered with success (status true) or with a rejected promise
EmailChangeVerified(c) ==
    /\ c.type = "verify-change-email"
    /\ \/ c.gw.kind = "reject"
       \/ c.gw.kind = "success" /\ c.gw.data = [status |-> TRUE]

\* C19: for verify-change-email, when the Gateway reports success the outcome
\* is success = true and the redirect is decided by the credential present
\* when the Gateway reported success (the session refresh was started exactly
\* when there was one): home with it, sign-in without it, for every timing and
\* result of the session refresh and of the account calls.
C19_RedirectByCredentialAtSuccess ==
    ( EmailChangeVerified(cb) /\ cb.gw.kind = "success" /\ cb.pc = "settled" )
        => ( /\ cb.promise = "fulfilled"
             /\ cb.outcome.success = TRUE
             /\ cb.outcome.redirectTo =
                    ExpectedEmailChanged(cb.token, \E i \in 1..Len(cb.calls) : cb.calls[i] = "getSession") )

\* C19 (amended): for verify-change-email, when verifyEmail succeeds with
\* data.status = true, or its promise rejects, the outcome is success = true
\* and the redirect is decided by the credential tokenStorage.get() gives at
\* the moment the outcome is produced, after the account listing and unlink
\* have completed: home with notification=emailChanged with one, sign-in with
\* notification=emailChanged without one, both with the new email when the
\* token tells it.
C19_RedirectByCredentialAtResolve ==
    [][ ( EmailChangeVerified(cb') /\ cb.promise = "pending" /\ cb'.promise # "pending" )
        => ( /\ cb'.promise = "fulfilled"
             /\ cb'.outcome =
                    [ success    |-> TRUE,
                      redirectTo |-> ExpectedEmailChanged(
                                         cb'.token,
                                         getStoredToken([localStorage |-> localStorage'])
                                             \notin { null, "" }) ] ) ]_vars

C19_Witness ==
    /\ cb.pc = "settled"
    /\ cb.type = "verify-change-email"
    /\ cb.gw.kind = "success"
    /\ cb.calls = << "verifyEmail", "getSession", "listAccounts", "unlinkAccount" >>
    /\ fetches["sess1"] = 1
    /\ cb.outcome = [ success    |-> TRUE,
                      redirectTo |-> "/?notification=emailChanged&email=n%40x.io&lang=us" ]

\* the suspension points of the best-effort side steps
SideSteps == { "listUserTeams", "listAccounts", "unlinkAccount", "onboard", "oauthRefetch" }

\* C20: a failure of a best-effort side step (the team-name lookup of invite,
\* the account listing, the unlink and the session refresh of
\* verify-change-email, onboard and the refetch after it in the OAuth
\* callback) never changes the success flag of the parent outcome, which is
\* true whatever the side step answered, and never keeps the parent from
\* resolving.
C20_SideStepsNeverFail ==
    /\ []( ( cb.pc = "settled" /\ cb.type = "invite" /\ Has(cb.gw, "teams") )
             => cb.promise = "fulfilled" /\ cb.outcome.success = TRUE )
    /\ []( ( cb.pc = "settled" /\ EmailChangeVerified(cb) )
             => cb.promise = "fulfilled" /\ cb.outcome.success = TRUE )
    /\ []( ( cb.pc = "settled" /\ cb.fn = "handleOAuthCallback" /\ Has(cb.gw, "onboard") )
             => /\ cb.promise = "fulfilled"
                /\ cb.outcome.success = TRUE
                /\ cb.outcome.redirectTo = "/"
                /\ cb.outcome.data.session = cb.gw.session )
    /\ ( cb.pc \in SideSteps ~> cb.promise = "fulfilled" )

C20_Witness ==
    /\ cb.pc = "settled"
    /\ cb.fn = "handleOAuthCallback"
    /\ Has(cb.gw, "onboard")
    /\ cb.gw.onboard.status = 401
    /\ authStore.user = NoUser
    /\ cb.outcome.success = TRUE

-----------------------------------------------------------------------------
(* Properties of setupCompanionTeam and useAuthSync *)

\* this step is an invocation of setupCompanionTeam
RunStarted == Len(sync'.runs) = Len(sync.runs) + 1

\* the run this step started
NewestRun == sync'.runs[Len(sync'.runs)]

BlankToken(token) == token \in { null, "", "  " }

BothActive(user) ==
    user # NoUser /\ Has(user, "activeOrganizationId") /\ Has(user, "activeTeamId")

BothInherent(user) ==
    user # NoUser /\ Has(user, "inherentOrganizationId") /\ Has(user, "inherentTeamId")

SessionUnchanged == authStore' = authStore /\ localStorage' = localStorage

\* C21: setupCompanionTeam makes no Gateway call and leaves the store as it is
\* when the token is empty or blank, when the store holds no user, and when the
\* user has both active ids; it invokes no callback in the first two cases and
\* only onComplete, once, in the third -- on every invocation, a repeated one
\* on the same session included.
C21_NoOpInvocations ==
    [][ RunStarted =>
          /\ (BlankToken(NewestRun.token) \/ authStore.user = NoUser) =>
                 /\ NewestRun.pc = "done" /\ NewestRun.calls = <<>>
                 /\ NewestRun.completes = 0 /\ NewestRun.errors = 0
                 /\ SessionUnchanged
          /\ (~BlankToken(NewestRun.token) /\ BothActive(authStore.user)) =>
                 /\ NewestRun.pc = "done" /\ NewestRun.calls = <<>>
                 /\ NewestRun.completes = 1 /\ NewestRun.errors = 0
                 /\ SessionUnchanged ]_vars

\* a blank token was passed, and then the same fully activated session was
\* passed twice
C21_Witness ==
    /\ Len(sync.runs) = 2
    /\ BothActive(authStore.user)
    /\ \A i \in 1..2 :
           /\ sync.runs[i].user = authStore.user
           /\ sync.runs[i].token = "sess1"
           /\ sync.runs[i].calls = <<>>
           /\ sync.runs[i].completes = 1

\* a blank token ended a run without a call or a callback
C21_BlankWitness ==
    \E i \in 1..Len(sync.runs) :
        /\ sync.runs[i].token = "  " /\ sync.runs[i].user # NoUser
        /\ ~BothActive(sync.runs[i].user)
        /\ sync.runs[i].pc = "done" /\ sync.runs[i].calls = <<>>
        /\ sync.runs[i].completes = 0

\* the run was started for a user who lacks an inherent id and an active id
NeedsOnboard(run) ==
    /\ ~BlankToken(run.token)
    /\ run.user # NoUser
    /\ ~BothActive(run.user)
    /\ ~BothInherent(run.user)

\* this step is the end of run i on the answer to its get-session request
SessionStep(i) ==
    /\ i \in 1..Len(sync.runs)
    /\ sync.runs[i].pc = "getSession"
    /\ sync'.runs[i].pc = "done"

\* the user with the four ids of the session written over its own
WithIdsOf(user, session) ==
    [ k \in (DOMAIN user \ { "activeOrganizationId", "activeTeamId",
                              "inherentOrganizationId", "inherentTeamId" })
             \cup (DOMAIN session \cap { "activeOrganizationId", "activeTeamId",
                                         "inherentOrganizationId", "inherentTeamId" })
        |-> IF k \in { "activeOrganizationId", "activeTeamId",
                       "inherentOrganizationId", "inherentTeamId" }
            THEN session[k] ELSE user[k] ]

\* C22: a run for a user who lacks an inherent id and an active id calls
\* onboard and, only when onboard succeeded, get-session, and nothing else (no
\* set-active call); it never invokes onError and invokes onComplete exactly
\* once, when it ends, whether the calls succeeded or failed; and a session
\* that get-session delivers has its ids merged into the user of the store.
C22_OnboardFallback ==
    /\ [](\A i \in 1..Len(sync.runs) :
            NeedsOnboard(sync.runs[i]) =>
                /\ sync.runs[i].calls \in { <<"onboard">>, <<"onboard", "getSession">> }
                /\ Len(sync.runs[i].calls) = 2 => sync.runs[i].gw.onboard.status = 200
                /\ sync.runs[i].errors = 0
                /\ sync.runs[i].completes = IF sync.runs[i].pc = "done" THEN 1 ELSE 0
                /\ (sync.runs[i].pc = "done" /\ Len(sync.runs[i].calls) = 1)
                       => sync.runs[i].gw.onboard.status # 200)
    /\ [][ \A i \in 1..MaxRuns :
             SessionStep(i) =>
                 LET answer == sync'.runs[i].gw.session
                 IN  IF answer.status = 200 /\ answer.data # NoUser /\ authStore.user # NoUser
                     THEN authStore'.user = WithIdsOf(authStore.user, answer.data)
                     ELSE authStore'.user = authStore.user \/ answer.status = 401 ]_vars

\* onboard and get-session succeeded and the store holds the inherent ids of
\* the session
C22_Witness ==
    \E i \in 1..Len(sync.runs) :
        /\ NeedsOnboard(sync.runs[i])
        /\ sync.runs[i].pc = "done"
        /\ sync.runs[i].calls = <<"onboard", "getSession">>
        /\ sync.runs[i].completes = 1
        /\ sync.runs[i].gw.session.data # NoUser
        /\ authStore.user # NoUser
        /\ Prop(authStore.user, "inherentOrganizationId") = "org3"
        /\ authStore.user.id = sync.runs[i].user.id

\* onboard failed and the run completed all the same
C22_FailureWitness ==
    \E i \in 1..Len(sync.runs) :
        /\ NeedsOnboard(sync.runs[i])
        /\ sync.runs[i].pc = "done"
        /\ sync.runs[i].gw.onboard.status = 500
        /\ sync.runs[i].completes = 1 /\ sync.runs[i].errors = 0

\* the run was started for a user with both inherent ids who lacks an active id
NeedsActivation(run) ==
    /\ ~BlankToken(run.token)
    /\ BothInherent(run.user)
    /\ ~BothActive(run.user)

\* the activation calls the user of the run needs
ActivationCalls(user) ==
    (IF Has(user, "activeOrganizationId") THEN <<>> ELSE <<"setActiveOrganization">>)
        \o (IF Has(user, "activeTeamId") THEN <<>> ELSE <<"setActiveTeam">>)

\* every answer the run has received is a success
AllAnswersOk(run) ==
    /\ Has(run.gw, "organization") =>
           run.gw.organization.status = 200 /\ Has(run.gw.organization.data, "id")
    /\ Has(run.gw, "team") => run.gw.team.status = 200

\* this step is the answer to the call run i is suspended on, and the run
\* goes on or completes
CallSucceeded(i, call) ==
    /\ i \in 1..Len(sync.runs)
    /\ sync.runs[i].pc = call
    /\ sync'.runs[i].pc # call
    /\ sync'.runs[i].errors = 0

\* C23: a run for a user with both inherent ids who lacks an active id makes
\* the activation calls the user needs and no other: set-active-organization
\* then set-active-team when both are missing, the one call when one is
\* missing, a later call only after the earlier one succeeded; it ends with
\* onComplete exactly when every call succeeded (with onError otherwise); and
\* each call that succeeds leaves its active id in the store equal to the
\* inherent id of the user.
C23_MinimalActivation ==
    /\ [](\A i \in 1..Len(sync.runs) :
            NeedsActivation(sync.runs[i]) =>
                LET run  == sync.runs[i]
                    need == ActivationCalls(run.user)
                IN  /\ Len(run.calls) \in 1..Len(need)
                    /\ run.calls = SubSeq(need, 1, Len(run.calls))
                    /\ Len(run.calls) = 2 =>
                           /\ run.gw.organization.status = 200
                           /\ Has(run.gw.organization.data, "id")
                    /\ run.pc = "done" =>
                           IF AllAnswersOk(run)
                           THEN run.calls = need /\ run.completes = 1 /\ run.errors = 0
                           ELSE run.completes = 0 /\ run.errors = 1
                    /\ run.pc # "done" => run.completes = 0 /\ run.errors = 0)
    /\ [][ \A i \in 1..MaxRuns :
             (i <= Len(sync.runs) /\ NeedsActivation(sync.runs[i]) /\ authStore'.user # NoUser) =>
                 /\ CallSucceeded(i, "setActiveOrganization") =>
                        Prop(authStore'.user, "activeOrganizationId")
                            = sync.runs[i].user.inherentOrganizationId
                 /\ CallSucceeded(i, "setActiveTeam") =>
                        /\ Prop(authStore'.user, "activeTeamId")
                               = sync.runs[i].user.inherentTeamId
                        /\ sync'.runs[i].completes = 1 ]_vars

\* both calls were made for a user who lacked both active ids, and the store
\* holds the inherent ids as the active ones
C23_Witness ==
    \E i \in 1..Len(sync.runs) :
        /\ NeedsActivation(sync.runs[i])
        /\ sync.runs[i].calls = <<"setActiveOrganization", "setActiveTeam">>
        /\ sync.runs[i].completes = 1
        /\ authStore.user # NoUser
        /\ Prop(authStore.user, "activeOrganizationId") = "org1"
        /\ Prop(authStore.user, "activeTeamId") = "team1"

\* a single call was made for a user who lacked one active id
C23_SingleCallWitness ==
    /\ Len(sync.runs) = 2
    /\ sync.runs[1].pc = "done" /\ sync.runs[1].completes = 1
    /\ sync.runs[1].calls = <<"setActiveTeam">>
    /\ authStore.user # NoUser
    /\ Prop(authStore.user, "activeOrganizationId") = "org2"
    /\ Prop(authStore.user, "activeTeamId") = "team1"

\* this step is a step of run i, which was started before
RunStep(i) == i \in 1..Len(sync.runs) /\ sync'.runs[i] # sync.runs[i]

\* C24: a step of a setupCompanionTeam run resets the guard of useAuthSync
\* exactly when the run ends in its outer catch, where onError is invoked and
\* onComplete is not; every other step of a run, its completion and its silent
\* return included, leaves the guard as it is, and the reconciliation that
\* starts a run leaves the guard set.
C24_GuardResetOnlyOnFailure ==
    [][ /\ \A i \in 1..MaxRuns :
             RunStep(i) =>
                 IF sync'.runs[i].errors > sync.runs[i].errors
                 THEN /\ ~sync'.teamSetupRef
                      /\ sync'.runs[i].pc = "done"
                      /\ sync'.runs[i].errors = 1
                      /\ sync'.runs[i].completes = 0
                 ELSE sync'.teamSetupRef = sync.teamSetupRef
        /\ RunStarted => sync'.teamSetupRef ]_vars

\* a run failed, the guard was reset, and the next session object of the same
\* user started a second run
C24_Witness ==
    /\ Len(sync.runs) = 2
    /\ sync.runs[1].errors = 1
    /\ sync.runs[2].user.id = sync.runs[1].user.id
    /\ sync.runs[2].pc = "done" /\ sync.runs[2].completes = 1
    /\ sync.teamSetupRef

\* the session the hook last rendered is loaded, authenticated and verified
Qualifies(s) ==
    /\ s.rendered /\ ~s.isPending
    /\ s.user # NoUser /\ Prop(s.user, "emailVerified") = TRUE

NoRunFailed == \A i \in 1..Len(sync.runs) : sync.runs[i].errors = 0

\* C25: between two renders without user, useAuthSync starts setupCompanionTeam
\* at most once (as long as no run has failed); with a credential stored, it
\* has started it once a render on a path outside the skip list found the
\* session loaded, authenticated and verified; and it never starts it while
\* the pathname is on the skip list or the session does not qualify.
C25_ExactlyOncePerLifetime ==
    /\ [](NoRunFailed => sync.lifetime <= 1)
    /\ []((Qualifies(sync) /\ ~shouldSkipCompanionTeam(sync.renderedPath)
               /\ Truthy(get(World)))
             => sync.lifetime >= 1)
    /\ [][ RunStarted =>
             Qualifies(sync') /\ ~shouldSkipCompanionTeam(sync.path) ]_vars

\* C26: once the hook has rendered a session without user, the guard is
\* reset, whatever the pathname is.
C26_SignOutResetsGuard ==
    (sync.rendered /\ sync.user = NoUser) => ~sync.teamSetupRef

\* this step is a render that called onAuthChange
Notified ==
    /\ sync'.emitted # <<>>
    /\ (sync'.emitted # sync.emitted \/ sync'.prevAuthRef # sync.prevAuthRef
            \/ sync'.user # sync.user)

\* C27: a render calls onAuthChange only with a value that differs from the
\* remembered one, the value is the isAuthenticated of that render and becomes
\* the remembered one; the remembered value changes only in a render that
\* calls onAuthChange; and after every render the remembered value is the
\* isAuthenticated of that render, so that no flip goes without notification
\* and no two notifications in a row carry the same value.
C27_AuthChangeOncePerFlip ==
    /\ [](sync.rendered => sync.prevAuthRef = Remembered(sync.user # NoUser))
    /\ [](Len(sync.emitted) <= 1)
    /\ [][ Notified =>
             /\ sync.prevAuthRef # Remembered(sync'.emitted[1])
             /\ sync'.emitted[1] = (sync'.user # NoUser)
             /\ sync'.prevAuthRef = Remembered(sync'.emitted[1]) ]_vars
    /\ [][ sync'.prevAuthRef # sync.prevAuthRef =>
             sync'.emitted = << sync'.user # NoUser >> ]_vars

\* a sign-out was notified after a sign-in that had started a run
C27_Witness ==
    /\ sync.emitted = << FALSE >>
    /\ sync.prevAuthRef = "false"
    /\ Len(sync.runs) > 0

\* a render with a new onAuthChange function and a new session object of
\* another user notified nothing
C27_QuietWitness ==
    /\ sync.inline /\ sync.emitted = <<>>
    /\ sync.user # NoUser /\ sync.user.id = "u1"
    /\ Len(sync.runs) > 0

\* a Gateway call of some run failed, or succeeded without the data asked for
SomeCallFailed ==
    \E i \in 1..Len(sync.runs) :
        LET gw == sync.runs[i].gw
        IN  \/ Has(gw, "onboard") /\ gw.onboard.status # 200
            \/ Has(gw, "session") /\ (gw.session.status # 200 \/ gw.session.data = NoUser)
            \/ Has(gw, "organization")
                   /\ (gw.organization.status # 200 \/ ~Has(gw.organization.data, "id"))
            \/ Has(gw, "team") /\ gw.team.status # 200

\* the hook has rendered a verified session on a path outside the skip list
\* while a credential is stored
Established ==
    /\ Qualifies(sync)
    /\ ~shouldSkipCompanionTeam(sync.path)
    /\ Truthy(get(World))

\* the store holds a user with both inherent and both active ids
Provisioned == BothInherent(authStore.user) /\ BothActive(authStore.user)

\* C28: with every Gateway call succeeding and nobody signing out, once the
\* hook has rendered a loaded, authenticated, verified session on a path
\* outside the skip list with a credential stored, the store eventually holds
\* a user with both inherent and both active ids.
C28_EventuallyProvisioned ==
    Established ~> Provisioned

\* a session that arrives with both inherent ids does get provisioned
ProvisionedWhenOnboarded ==
    (Established /\ BothInherent(sync.user)) ~> Provisioned

-----------------------------------------------------------------------------
(* Properties of the store actions *)

\* C29: in every state of the store, setAuthenticated(user) yields the given
\* user, isAuthenticated true, isLoaded true, loading false and error null, and
\* leaves the stored token and its mirror as they are.
C29_SetAuthenticated ==
    \A user \in Users :
        LET w == setAuthenticated(World, user)
        IN  /\ w.authStore.user = user
            /\ w.authStore.isAuthenticated = TRUE
            /\ w.authStore.isLoaded = TRUE
            /\ w.authStore.loading = FALSE
            /\ w.authStore.error = null
            /\ w.authStore.token = authStore.token
            /\ w.localStorage = localStorage

\* a store with an error, loading, not loaded, without user and with a token:
\* the state setAuthenticated has most to change in
C29_Witness ==
    /\ authStore.error # null /\ authStore.loading /\ ~authStore.isLoaded
    /\ authStore.user = NoUser /\ ~authStore.isAuthenticated
    /\ authStore.token # null /\ localStorage # null

\* C30: in every state of the store, clearAuth yields no user, isAuthenticated
\* false, isLoaded true and loading false, with the token gone from the token
\* storage and from its mirror; handleUnauthorized yields the same state, and
\* so does the handling of a response with status 401, and of no other status.
C30_ClearAuth ==
    LET w == clearAuth(World)
    IN  /\ w.authStore.user = NoUser
        /\ w.authStore.isAuthenticated = FALSE
        /\ w.authStore.isLoaded = TRUE
        /\ w.authStore.loading = FALSE
        /\ w.authStore.token = null
        /\ get(w) = null
        /\ lsFault # "denied" => w.localStorage = null
        /\ handleUnauthorized(World) = w
        /\ handleResponse(World, 401) = w
        /\ \A status \in Statuses \ { 401 } : handleResponse(World, status) = World

\* a store with a user, loading, not loaded and with a token in the storage
\* and in the mirror: the state clearAuth has most to change in
C30_Witness ==
    /\ authStore.user # NoUser /\ authStore.isAuthenticated
    /\ authStore.loading /\ ~authStore.isLoaded
    /\ authStore.token # null /\ get(World) # null

\* everything of the world but the user
Frame(w) == <<[w.authStore EXCEPT !.user = NoUser], w.localStorage>>

\* user with the property k taken away
Without(user, k) == [x \in DOMAIN user \ {k} |-> user[x]]

\* id ?? undefined
Nullish(id) == IF id \in {null, undefined} THEN undefined ELSE id

\* C31: in every state of the store, updateUser, setActiveOrganizationId and
\* setActiveTeamId return the store as it is when it has no user; when it has
\* one they leave isAuthenticated, isLoaded, loading, error, the token and the
\* token storage as they are, updateUser yields the user with the properties
\* of the updates and every other property as before, and
\* setActiveOrganizationId / setActiveTeamId yield the user with the named id
\* (absent for null and undefined) and every other property as before.
C31_MergeOnlyIntoSession ==
    /\ \A updates \in UserUpdates :
           LET w == updateUser(World, updates)
           IN  IF authStore.user = NoUser THEN w = World
               ELSE /\ Frame(w) = Frame(World)
                    /\ DOMAIN w.authStore.user = DOMAIN authStore.user \cup DOMAIN updates
                    /\ \A k \in DOMAIN w.authStore.user :
                           w.authStore.user[k] =
                               IF k \in DOMAIN updates THEN updates[k] ELSE authStore.user[k]
    /\ \A organizationId \in OrganizationIds :
           LET w == setActiveOrganizationId(World, organizationId)
           IN  IF authStore.user = NoUser THEN w = World
               ELSE /\ Frame(w) = Frame(World)
                    /\ Prop(w.authStore.user, "activeOrganizationId") = Nullish(organizationId)
                    /\ Without(w.authStore.user, "activeOrganizationId")
                           = Without(authStore.user, "activeOrganizationId")
    /\ \A teamId \in TeamIds :
           LET w == setActiveTeamId(World, teamId)
           IN  IF authStore.user = NoUser THEN w = World
               ELSE /\ Frame(w) = Frame(World)
                    /\ Prop(w.authStore.user, "activeTeamId") = Nullish(teamId)
                    /\ Without(w.authStore.user, "activeTeamId")
                           = Without(authStore.user, "activeTeamId")

\* a loaded store without a user in which an error and a token are kept: the
\* three actions have been called on it and nothing came of it
C31_NoSessionWitness ==
    /\ authStore.user = NoUser /\ authStore.isLoaded
    /\ authStore.error # null /\ authStore.token # null

\* a store whose user has been merged into: a name no session delivers, and an
\* active team beside the active organization the session came with
C31_Witness ==
    /\ authStore.user # NoUser
    /\ authStore.user.name = "Zed"
    /\ Prop(authStore.user, "activeTeamId") = "team2"
    /\ Prop(authStore.user, "activeOrganizationId") = "org1"

\* C32: once isLoaded is true no step makes it false again, and a step that
\* is clearAuth leaves the store loaded and without a user.
C32_LoadedForGood ==
    [][ /\ authStore.isLoaded => authStore'.isLoaded
        /\ StoreClearAuth => /\ authStore'.isLoaded
                             /\ authStore'.user = NoUser
                             /\ ~authStore'.isAuthenticated ]_vars

\* the same of the mounted hook alone: no render of useAuthSync and no step of
\* setupCompanionTeam takes isLoaded back
LoadedForGoodInSync == [][authStore.isLoaded => authStore'.isLoaded]_vars

\* the token storage holds a credential: in localStorage or in its mirror
CredentialHeld == Truthy(get(World)) \/ Truthy(authStore.token)

\* C33: in every reachable state a store that holds a user comes with a token
\* storage that holds a credential.
C33_SessionImpliesCredential == authStore.user # NoUser => CredentialHeld

\* localStorage takes the write save(token) makes: setItem for a token,
\* removeItem for null
WriteSucceeds(token) ==
    IF Truthy(token) THEN lsFault = "none" ELSE lsFault # "denied"

\* C34: in every state of the store and for every behaviour of localStorage,
\* save(t) returns with authStore.token equal to t and the rest of authStore
\* as it was, for a token and for null; when localStorage takes the write,
\* get() returns t afterwards, and when it throws the stored value stays; and
\* clear() yields the state save(null) yields.
C34_SaveWritesThrough ==
    /\ \A t \in VaultTokens :
           LET w == save(World, t)
           IN  /\ w.authStore.token = t
               /\ [w.authStore EXCEPT !.token = authStore.token] = authStore
               /\ WriteSucceeds(t) => get(w) = t
               /\ ~WriteSucceeds(t) => w.localStorage = localStorage
    /\ clear(World) = save(World, null)

\* localStorage refused a write and the mirror took the token all the same:
\* it holds a token localStorage does not
C34_Witness ==
    /\ lsFault # "none"
    /\ authStore.token = "sess2"
    /\ localStorage # "sess2"

\* localStorage took the write: both hold the token that replaced another
C34_DurableWitness ==
    /\ lsFault = "none"
    /\ authStore.token = "sess2" /\ get(World) = "sess2"

-----------------------------------------------------------------------------
(* Properties of the startup *)

\* this step is the call of initializeAuth on a store that is not loaded yet
StartupCalled ==
    /\ cb.pc = "idle" /\ cb'.fn = "initializeAuth" /\ cb'.pc # "idle"
    /\ ~authStore.isLoaded

\* this step is the answer to the get-session request of the startup
StartupAnswered == cb.fn = "initializeAuth" /\ cb.pc = "startupSession" /\ cb' # cb

\* the startup as the claim has it, for the token parameters that satisfy wellFormed
StartupAdopts(wellFormed) ==
    /\ (StartupCalled /\ Truthy(urlToken) /\ wellFormed) =>
           /\ urlToken' = null
           /\ cb'.pc = "startupSession" /\ cb'.calls = << "getSession" >>
           /\ cb'.promise = "none"
           /\ Truthy(cb'.token) /\ authStore'.token = cb'.token
           /\ lsFault = "none" => localStorage' = cb'.token
    /\ StartupCalled => cb'.promise # "rejected"
    /\ StartupAnswered =>
           /\ cb'.pc = "settled" /\ cb'.promise = "fulfilled"
           /\ cb'.outcome.returned = authStore'.isAuthenticated
           /\ ~(cb'.gw.status = 200 /\ authStore'.user # NoUser) =>
                  /\ authStore'.user = NoUser /\ ~authStore'.isAuthenticated
                  /\ authStore'.isLoaded
                  /\ authStore'.token = null
                  /\ getStoredToken([localStorage |-> localStorage']) = null

\* C35: a call of initializeAuth on a store that is not loaded, with a token
\* parameter in the URL, takes the parameter out of the URL, saves the token
\* and leaves a get-session request in flight; the call does not reject; the
\* answer to the request settles the call, and a failed fetch leaves no user,
\* isAuthenticated false, isLoaded true and no token in the token storage.
C35_StartupAdoptsUrlToken == [][StartupAdopts(TRUE)]_vars

\* the same for the token parameters decodeURIComponent accepts, except that
\* the call rejects for the others
StartupAdoptsDecodable ==
    [][ /\ decodeURIComponent(OrElse(urlToken, "")) # URIError => StartupAdopts(TRUE)
        /\ decodeURIComponent(OrElse(urlToken, "")) = URIError =>
               (StartupCalled => cb'.promise = "rejected" /\ urlToken' = urlToken
                                   /\ authStore' = authStore /\ cb'.calls = <<>>) ]_vars

\* a failed fetch of the startup has been answered: the call returned false
StartupFailedWitness ==
    /\ cb.fn = "initializeAuth" /\ cb.pc = "settled" /\ cb.calls = << "getSession" >>
    /\ cb.outcome.returned = FALSE /\ urlToken = null /\ authStore.isLoaded

-----------------------------------------------------------------------------
(* Properties of the compound activation *)

\* this step is the failure of the setActiveTeam that an invitation requested
\* after its setActiveOrganization succeeded
InviteTeamFailed ==
    /\ cb.type = "invite" /\ cb.pc = "setActiveTeam" /\ Has(cb.gw, "organization")
    /\ cb' # cb
    /\ cb'.gw.team.status # 200

\* this step is the failure of the setActiveTeam that run i requested after
\* its setActiveOrganization succeeded
RunTeamFailed(i) ==
    /\ RunAt(i, "setActiveTeam") /\ Has(sync.runs[i].gw, "organization")
    /\ sync'.runs[i] # sync.runs[i]
    /\ sync'.runs[i].gw.team.status # 200

\* the failure is reported: the inviteFailed redirect, the error callback
InviteReportsFailure == cb'.promise = "fulfilled" /\ cb'.outcome = InviteFailed

RunReportsFailure(i) ==
    /\ sync'.runs[i].pc = "done"
    /\ sync'.runs[i].errors = 1 /\ sync'.runs[i].completes = 0

WorldAfter == [authStore |-> authStore', localStorage |-> localStorage']

\* C36 as stated: the step in which setActiveTeam fails after
\* setActiveOrganization succeeded, in an invitation or in setupCompanionTeam,
\* leaves the user of the store as it was, with the active organization that
\* was set and the active team it had, and the operation reports failure.
C36_PartialStateKept ==
    [][ /\ InviteTeamFailed => /\ authStore'.user = authStore.user
                               /\ InviteReportsFailure
        /\ \A i \in 1..Len(sync.runs) :
               RunTeamFailed(i) => /\ authStore'.user = authStore.user
                                   /\ RunReportsFailure(i) ]_vars

\* C36 as the code has it: the step in which setActiveTeam fails after
\* setActiveOrganization succeeded undoes nothing and reports failure; unless
\* the failure is a response with status 401 it leaves the store and the
\* token storage as they were, so that a user keeps the active organization
\* that was set and the active team it had; a response with status 401 clears
\* the user and the token as every other 401 does.
C36_NoRollbackUnlessUnauthorized ==
    [][ /\ InviteTeamFailed =>
               /\ InviteReportsFailure
               /\ WorldAfter = IF cb'.gw.team.status = 401 THEN clearAuth(World) ELSE World
        /\ \A i \in 1..Len(sync.runs) :
               RunTeamFailed(i) =>
                   /\ RunReportsFailure(i)
                   /\ WorldAfter = IF sync'.runs[i].gw.team.status = 401
                                   THEN clearAuth(World) ELSE World ]_vars

\* an invitation ended in inviteFailed and the user is left with the
\* organization of the invitation active and not its team
C36_Witness ==
    /\ cb.type = "invite" /\ cb.pc = "settled" /\ cb.outcome = InviteFailed
    /\ Has(cb.gw, "team") /\ cb.gw.team.status = 500
    /\ authStore.user # NoUser
    /\ Prop(authStore.user, "activeOrganizationId") = "org2"
    /\ Prop(authStore.user, "activeTeamId") # "team2"

\* a run of setupCompanionTeam ended in onError and the user is left with the
\* inherent organization active and no active team
C36_RunWitness ==
    \E i \in 1..Len(sync.runs) :
        /\ sync.runs[i].pc = "done" /\ sync.runs[i].errors = 1
        /\ Len(sync.runs[i].calls) = 2
        /\ authStore.user # NoUser
        /\ Prop(authStore.user, "activeOrganizationId") = sync.runs[i].user.inherentOrganizationId
        /\ ~Has(authStore.user, "activeTeamId")

-----------------------------------------------------------------------------
(* Properties of overlapping session writes *)

\* this step is the answer to the get-session request made with token
FetchAnswered(token) == fetches'[token] < fetches[token]

\* C37: the answer to a get-session request is written whatever else is in
\* flight and whatever credential the token storage holds by then: an answer
\* with a session leaves the session of the answered request in the store,
\* authenticated and loaded, and the token storage as it is; any other answer
\* leaves no session and no token.  What the store holds after overlapping
\* writes is what the last one wrote.
C37_LastWriteWins ==
    [][ /\ \A token \in FetchTokens :
               FetchAnswered(token) =>
                   \/ /\ authStore'.user = SessionOf(token)
                      /\ authStore'.isAuthenticated /\ authStore'.isLoaded
                      /\ authStore'.token = authStore.token
                      /\ localStorage' = localStorage
                   \/ WorldAfter = clearAuth(World)
        /\ \A user \in { SessionOf(token) : token \in FetchTokens } \cup { NoUser } :
               \A isPending \in BOOLEAN :
                   SessionSynced(user, isPending) =>
                       /\ authStore'.user = user
                       /\ authStore'.token = authStore.token ]_vars

\* two fetches overlapped and the one that started first was answered last:
\* nothing is in flight, the token storage holds the second credential and
\* the store the session of the first
C37_Witness ==
    /\ \A token \in FetchTokens : fetches[token] = 0
    /\ lsFault = "none"
    /\ authStore.token = "sess2" /\ get(World) = "sess2"
    /\ authStore.user = SessionOf("sess1")

-----------------------------------------------------------------------------
(* Properties of the error classification *)

\* a handler of one of the four kinds has settled on a Gateway error that
\* carries a message
SettledOnError ==
    /\ cb.pc = "settled"
    /\ cb.type \in { "signup", "delete-user", "confirm-change-email", "verify-change-email" }
    /\ cb.gw.kind = "error"
    /\ Has(cb.gw.error, "message")

\* C38: for signup, delete-user, confirm-change-email and verify-change-email
\* a Gateway error of which isTokenExpiredError holds (code INVALID_TOKEN or
\* SESSION_EXPIRED, or a message that contains "expired") gives the
\* link-expired redirect, and the test the handler makes of the error agrees
\* with isTokenExpiredError.
C38_ExpiredAsTheUtility ==
    SettledOnError =>
        /\ isExpired(cb.gw.error) <=> isTokenExpiredError(cb.gw.error)
        /\ isTokenExpiredError(cb.gw.error) =>
               /\ cb.promise = "fulfilled"
               /\ cb.outcome.redirectTo = LinkExpiredFor(cb.type)

\* what the handlers do: the link-expired redirect for the errors their own
\* test accepts, which are those isTokenExpiredError accepts but for the
\* code SESSION_EXPIRED
ExpiredAsTheHandlers ==
    SettledOnError =>
        /\ isExpired(cb.gw.error) <=>
               (isTokenExpiredError(cb.gw.error) /\ Prop(cb.gw.error, "code") # "SESSION_EXPIRED")
        /\ isExpired(cb.gw.error) =>
               /\ cb.promise = "fulfilled"
               /\ cb.outcome.redirectTo = LinkExpiredFor(cb.type)

-----------------------------------------------------------------------------
(* Properties of the store as a whole *)

\* C39: in every state the store actions reach from the initial store,
\* isAuthenticated is true exactly when there is a user, and isReady is
\* isLoaded and a user.
C39_AuthenticatedIffUser ==
    /\ authStore.isAuthenticated <=> authStore.user # NoUser
    /\ isReady(World) <=> (authStore.isLoaded /\ authStore.user # NoUser)

\* a store made ready by its actions: a user, merged into since, in a loaded
\* store that has been set loading again
C39_Witness ==
    /\ authStore.user # NoUser /\ authStore.isAuthenticated
    /\ authStore.user.name = "Zed"
    /\ authStore.isLoaded /\ isReady(World) /\ authStore.loading

\* a user was set and then isLoaded taken back: authenticated and not ready
C39_NotLoadedWitness ==
    /\ authStore.user # NoUser /\ authStore.isAuthenticated
    /\ ~authStore.isLoaded /\ ~isReady(World)
    /\ authStore.error # null

\* a user was replaced by none after the store was loaded: loaded and not ready
C39_SignedOutWitness ==
    /\ authStore.user = NoUser /\ ~authStore.isAuthenticated
    /\ authStore.isLoaded /\ ~isReady(World) /\ authStore.loading

-----------------------------------------------------------------------------
(* Properties of handleOAuthCallback *)

OAuthSettled == cb.fn = "handleOAuthCallback" /\ cb.pc = "settled"

\* the first get-session of the invocation delivered a session
OAuthSessionDelivered ==
    /\ cb.gw.kind = "session" /\ cb.gw.session # NoUser

\* what the claim says of the failures and of onboarding: an empty token and
\* a first fetch without session give success = false, the sign-in redirect
\* and a store without user; onboard is called only for a new user whose
\* session has no inherent organization
OAuthFailuresAndOnboard ==
    /\ (OAuthSettled /\ ~OAuthSessionDelivered) =>
           /\ cb.promise = "fulfilled"
           /\ cb.outcome.success = FALSE /\ cb.outcome.redirectTo = SignIn
           /\ cb.calls = IF Truthy(cb.token) THEN << "getSession" >> ELSE <<>>
           /\ Truthy(cb.token) => authStore.user = NoUser /\ ~authStore.isAuthenticated
    /\ (cb.fn = "handleOAuthCallback" /\ Len(cb.calls) >= 2) =>
           /\ cb.calls[2] = "onboard"
           /\ cb.options.isNewUser
           /\ OAuthSessionDelivered
           /\ ~Truthy(Prop(cb.gw.session, "inherentOrganizationId"))
    /\ (OAuthSettled /\ OAuthSessionDelivered) =>
           /\ cb.promise = "fulfilled" /\ cb.outcome.success = TRUE

\* C40: when handleOAuthCallback has resolved with success = true the store
\* holds a user, isAuthenticated is true and the token storage holds the
\* token of the callback; an empty token and a failed session fetch give
\* success = false, the sign-in redirect and a store without user; onboard is
\* called only for a new user whose session has no inherent organization.
C40_SuccessMeansAuthenticated ==
    /\ OAuthFailuresAndOnboard
    /\ (OAuthSettled /\ cb.promise = "fulfilled" /\ cb.outcome.success = TRUE) =>
           /\ authStore.user # NoUser /\ authStore.isAuthenticated
           /\ authStore.token = cb.token

\* without onboard, success = true does come with the session in the store
OAuthSuccessWithoutOnboard ==
    (OAuthSettled /\ cb.outcome.success = TRUE /\ cb.calls = << "getSession" >>) =>
        /\ authStore.user = cb.gw.session /\ authStore.isAuthenticated
        /\ authStore.token = cb.token

====
